---- MODULE Spec2Model ----
(***************************************************************************)
(* MiniLang++ compiler front end: the lexical analyzer, the recursive      *)
(* descent parser, the semantic analyzer, the three-address code           *)
(* generator and the page component whose compile handler chains them.     *)
(*                                                                         *)
(* Source text is a sequence of one-character strings.  Lexemes, messages  *)
(* and instructions are strings built by concatenation, as the code builds *)
(* them.  Objects are records holding exactly the properties the code      *)
(* sets; an absent property is an absent field.  Every class instance is a *)
(* record of its fields and every method maps an instance to the instance  *)
(* after the call (and the value returned).                                *)
(***************************************************************************)
EXTENDS Integers, Sequences, FiniteSets, TLC

VARIABLES
    \* ---- the page component MiniLangCompiler: its React state
    sourceCode, tokens, ast, symbolTable, semanticErrors, intermediateCode,
    lexicalErrors, syntaxErrors, isCompiling,
    \* the constants the latest compile bound (lexResult, parseResult,
    \* semanticResult, tacCode; a phase not invoked binds none), and the
    \* number of compiles so far
    locals, compiles,
    \* ---- the four classes, one method call per step
    lexer, lexResult, lexCalls,
    parser, parseResult,
    analyzer, semResult,
    \* codeGen is one generator instance; genReturned lists what each of its
    \* generate calls returned
    codeGen, genReturned,
    \* the outputs of an independent pipeline over the same source
    otherRun

pageVars == <<sourceCode, tokens, ast, symbolTable, semanticErrors, intermediateCode,
              lexicalErrors, syntaxErrors, isCompiling, locals, compiles>>

unitVars == <<lexer, lexResult, lexCalls, parser, parseResult, analyzer, semResult,
              codeGen, genReturned, otherRun>>

vars == <<pageVars, unitVars>>

\* JavaScript null (useState(null), a result not produced yet)
null == [isNull |-> TRUE]

----------------------------------------------------------------------------
(* Generic helpers *)

Max(a, b) == IF a >= b THEN a ELSE b

RECURSIVE Flatten(_)
Flatten(ss) == IF ss = <<>> THEN <<>> ELSE Head(ss) \o Flatten(Tail(ss))

RECURSIVE SeqsUpTo(_, _)
SeqsUpTo(S, n) ==
    IF n = 0 THEN {<<>>}
    ELSE LET shorter == SeqsUpTo(S, n - 1)
         IN  shorter \cup {Append(s, x) : s \in {t \in shorter : Len(t) = n - 1}, x \in S}

Range(s) == {s[i] : i \in 1..Len(s)}

\* the value of a function with one argument: With([x \in {e} |-> body]) is
\* body with x naming the value of e, which is computed once
With(f) == f[CHOOSE x \in DOMAIN f : TRUE]

----------------------------------------------------------------------------
(* LexicalAnalyzer *)

LowerLetters == {"a","b","c","d","e","f","g","h","i","j","k","l","m",
                 "n","o","p","q","r","s","t","u","v","w","x","y","z"}
UpperLetters == {"A","B","C","D","E","F","G","H","I","J","K","L","M",
                 "N","O","P","Q","R","S","T","U","V","W","X","Y","Z"}
DigitChars == {"0","1","2","3","4","5","6","7","8","9"}

keywords == {"int", "float", "bool", "if", "else", "while", "return", "true", "false"}

operators == [x \in {"+", "-", "*", "/", "=", "==", "!=", "<", ">", "<=", ">=",
                     "&&", "||", "!"} |->
    CASE x = "+"  -> "PLUS"
      [] x = "-"  -> "MINUS"
      [] x = "*"  -> "MULTIPLY"
      [] x = "/"  -> "DIVIDE"
      [] x = "="  -> "ASSIGN"
      [] x = "==" -> "EQUAL"
      [] x = "!=" -> "NOT_EQUAL"
      [] x = "<"  -> "LESS_THAN"
      [] x = ">"  -> "GREATER_THAN"
      [] x = "<=" -> "LESS_EQUAL"
      [] x = ">=" -> "GREATER_EQUAL"
      [] x = "&&" -> "LOGICAL_AND"
      [] x = "||" -> "LOGICAL_OR"
      [] x = "!"  -> "LOGICAL_NOT"]

delimiters == [x \in {"(", ")", "{", "}", ";", ","} |->
    CASE x = "(" -> "LEFT_PAREN"
      [] x = ")" -> "RIGHT_PAREN"
      [] x = "{" -> "LEFT_BRACE"
      [] x = "}" -> "RIGHT_BRACE"
      [] x = ";" -> "SEMICOLON"
      [] x = "," -> "COMMA"]

\* new LexicalAnalyzer(source): the field initialisers and the constructor
NewLexicalAnalyzer(source) ==
    [source |-> source, position |-> 0, line |-> 1, column |-> 1,
     tokens |-> <<>>, errors |-> <<>>]

isLetter(char) == char \in LowerLetters \cup UpperLetters

isDigit(char) == char \in DigitChars

isOperatorStart(char) == char \in {"+", "-", "*", "/", "=", "!", "<", ">", "&", "|"}

\* this.source[i], i counted from 0 as in the code
CharAt(lx, i) == lx.source[i + 1]

Lex_advance(lx) == [lx EXCEPT !.position = @ + 1, !.column = @ + 1]

Lex_addToken(lx, type, value) ==
    [lx EXCEPT !.tokens = Append(@, [type |-> type, value |-> value,
                                     line |-> lx.line, column |-> lx.column])]

\* addError that records the column after the character
Lex_addErrorAtNextColumn(lx, message) ==
    [lx EXCEPT !.errors = Append(@, [message |-> message,
                                     line |-> lx.line, column |-> lx.column + 1])]

Lex_addError(lx, message) ==
    [lx EXCEPT !.errors = Append(@, [message |-> message,
                                     line |-> lx.line, column |-> lx.column])]

\* source.substring(start, end)
RECURSIVE Substring(_, _, _)
Substring(source, start, end) ==
    IF start >= end THEN ""
    ELSE source[start + 1] \o Substring(source, start + 1, end)

\* skipWhitespace that leaves the column where it is at a newline
RECURSIVE skipWhitespaceKeepColumn(_)
skipWhitespaceKeepColumn(lx) ==
    IF lx.position < Len(lx.source)
    THEN LET char == CharAt(lx, lx.position)
         IN  IF char = " " \/ char = "\t" \/ char = "\r"
             THEN skipWhitespaceKeepColumn(Lex_advance(lx))
             ELSE IF char = "\n"
                  THEN skipWhitespaceKeepColumn([lx EXCEPT !.line = @ + 1,
                                                           !.position = @ + 1])
                  ELSE lx
    ELSE lx

RECURSIVE skipWhitespace(_)
skipWhitespace(lx) ==
    IF lx.position < Len(lx.source)
    THEN LET char == CharAt(lx, lx.position)
         IN  IF char = " " \/ char = "\t" \/ char = "\r"
             THEN skipWhitespace(Lex_advance(lx))
             ELSE IF char = "\n"
                  THEN skipWhitespace([lx EXCEPT !.line = @ + 1, !.column = 1,
                                                 !.position = @ + 1])
                  ELSE lx
    ELSE lx

\* the while loop of readIdentifierOrKeyword
RECURSIVE ReadIdentChars(_)
ReadIdentChars(lx) ==
    IF /\ lx.position < Len(lx.source)
       /\ \/ isLetter(CharAt(lx, lx.position))
          \/ isDigit(CharAt(lx, lx.position))
          \/ CharAt(lx, lx.position) = "_"
    THEN ReadIdentChars(Lex_advance(lx))
    ELSE lx

readIdentifierOrKeyword(lx) ==
    LET start == lx.position
        startColumn == lx.column
        l1 == ReadIdentChars(lx)
        value == Substring(l1.source, start, l1.position)
        type == IF value \in keywords THEN "KEYWORD" ELSE "IDENTIFIER"
    IN  [l1 EXCEPT !.tokens = Append(@, [type |-> type, value |-> value,
                                         line |-> l1.line, column |-> startColumn])]

\* the two digit loops of readNumber
RECURSIVE ReadDigits(_)
ReadDigits(lx) ==
    IF lx.position < Len(lx.source) /\ isDigit(CharAt(lx, lx.position))
    THEN ReadDigits(Lex_advance(lx))
    ELSE lx

readNumber(lx) ==
    LET start == lx.position
        startColumn == lx.column
        l1 == ReadDigits(lx)
        isFloat == l1.position < Len(l1.source) /\ CharAt(l1, l1.position) = "."
        l2 == IF isFloat THEN ReadDigits(Lex_advance(l1)) ELSE l1
        value == Substring(l2.source, start, l2.position)
    IN  [l2 EXCEPT !.tokens = Append(@, [type |-> IF isFloat THEN "FLOAT_LITERAL"
                                                             ELSE "INT_LITERAL",
                                         value |-> value,
                                         line |-> l2.line, column |-> startColumn])]

readOperator(lx) ==
    LET startColumn == lx.column
        operator == CharAt(lx, lx.position)
        hasTwo == lx.position + 1 < Len(lx.source)
        twoChar == operator \o CharAt(lx, lx.position + 1)
    IN  IF hasTwo /\ twoChar \in DOMAIN operators
        THEN LET l2 == Lex_advance(Lex_advance(lx))
             IN  [l2 EXCEPT !.tokens = Append(@, [type |-> operators[twoChar],
                                                  value |-> twoChar,
                                                  line |-> l2.line,
                                                  column |-> startColumn])]
        ELSE IF operator \in DOMAIN operators
             THEN LET l1 == Lex_advance(lx)
                  IN  [l1 EXCEPT !.tokens = Append(@, [type |-> operators[operator],
                                                       value |-> operator,
                                                       line |-> l1.line,
                                                       column |-> startColumn])]
             ELSE Lex_advance(Lex_addError(lx, "Invalid operator: " \o operator))

\* ScanChar that moves two positions past an invalid character
ScanCharSkipTwo(lx) ==
    LET char == CharAt(lx, lx.position)
    IN  IF isLetter(char) \/ char = "_" THEN readIdentifierOrKeyword(lx)
        ELSE IF isDigit(char) THEN readNumber(lx)
        ELSE IF isOperatorStart(char) THEN readOperator(lx)
        ELSE IF char \in DOMAIN delimiters
             THEN Lex_advance(Lex_addToken(lx, delimiters[char], char))
             ELSE Lex_advance(Lex_advance(Lex_addError(lx, "Invalid character: " \o char)))

\* the if / else-if chain of one iteration of tokenize's loop, at a character
ScanChar(lx) ==
    LET char == CharAt(lx, lx.position)
    IN  IF isLetter(char) \/ char = "_" THEN readIdentifierOrKeyword(lx)
        ELSE IF isDigit(char) THEN readNumber(lx)
        ELSE IF isOperatorStart(char) THEN readOperator(lx)
        ELSE IF char \in DOMAIN delimiters
             THEN Lex_advance(Lex_addToken(lx, delimiters[char], char))
             ELSE Lex_advance(Lex_addError(lx, "Invalid character: " \o char))

\* one iteration of tokenize's loop (the break leaves the instance as
\* skipWhitespace left it)
ScanIteration(lx) ==
    LET l1 == skipWhitespace(lx)
    IN  IF l1.position >= Len(l1.source) THEN l1 ELSE ScanChar(l1)

RECURSIVE ScanLoop(_)
ScanLoop(lx) ==
    IF lx.position < Len(lx.source) THEN ScanLoop(ScanIteration(lx)) ELSE lx

\* tokenize() that appends EOF only after a scan without errors
TokenizeEofUnlessErrors(lx) ==
    LET scanned == ScanLoop(lx)
    IN  IF scanned.errors = <<>> THEN Lex_addToken(scanned, "EOF", "") ELSE scanned

\* tokenize(): the instance after the call; the value returned is its
\* tokens and errors (LexResult)
tokenize(lx) == Lex_addToken(ScanLoop(lx), "EOF", "")

LexResult(lx) == [tokens |-> lx.tokens, errors |-> lx.errors]

----------------------------------------------------------------------------
(* Parser.  A parsing method returns [ok, p, v]: whether it returned        *)
(* normally (ok) or threw Error("Parse error"), the instance after the call *)
(* (p) and the value returned (v).                                          *)

\* new Parser(tokens)
NewParser(toks) == [tokens |-> toks, position |-> 0, errors |-> <<>>]

Ok(p, v) == [ok |-> TRUE, p |-> p, v |-> v]

Throw(p) == [ok |-> FALSE, p |-> p, v |-> null]

\* this.tokens[this.position] || { type: "EOF", value: "", line: 0, column: 0 }
Par_peek(p) ==
    IF p.position < Len(p.tokens) THEN p.tokens[p.position + 1]
    ELSE [type |-> "EOF", value |-> "", line |-> 0, column |-> 0]

\* this.tokens[this.position - 1]; every use follows an advance that moved
Par_previous(p) == p.tokens[p.position]

Par_isAtEnd(p) == p.position >= Len(p.tokens) \/ Par_peek(p).type = "EOF"

Par_check(p, type) == IF Par_isAtEnd(p) THEN FALSE ELSE Par_peek(p).type = type

Par_advance(p) == IF ~Par_isAtEnd(p) THEN [p EXCEPT !.position = @ + 1] ELSE p

\* match(...types): [m |-> the boolean returned, p |-> the instance after]
Par_match(p, types) ==
    IF \E i \in 1..Len(types) : Par_check(p, types[i])
    THEN [m |-> TRUE, p |-> Par_advance(p)]
    ELSE [m |-> FALSE, p |-> p]

Par_addError(p, message, token) ==
    [p EXCEPT !.errors = Append(@, [message |-> message, line |-> token.line,
                                    column |-> token.column])]

Par_consume(p, type, message) ==
    IF Par_check(p, type)
    THEN Ok(Par_advance(p), Par_previous(Par_advance(p)))
    ELSE Throw(Par_addError(p, message, Par_peek(p)))

SyncKeywords == {"int", "float", "bool", "if", "while", "return"}

\* the while loop of synchronize
RECURSIVE SynchronizeLoop(_)
SynchronizeLoop(p) ==
    IF Par_isAtEnd(p) THEN p
    ELSE IF Par_previous(p).type = "SEMICOLON" THEN p
    ELSE IF Par_peek(p).type = "KEYWORD" /\ Par_peek(p).value \in SyncKeywords THEN p
    ELSE SynchronizeLoop(Par_advance(p))

synchronize(p) == SynchronizeLoop(Par_advance(p))

\* the node every binary level builds
BinaryNode(operator, left, right) ==
    [type |-> "BinaryExpression", value |-> operator.value,
     children |-> <<left, right>>, line |-> operator.line, column |-> operator.column]

LiteralNode(type, token) ==
    [type |-> type, value |-> token.value, line |-> token.line, column |-> token.column]

RECURSIVE parseExpression(_), parseLogicalOr(_), LogicalOrLoop(_, _, _),
          parseLogicalAnd(_), LogicalAndLoop(_, _, _), parseEquality(_),
          EqualityLoop(_, _, _), parseComparison(_), ComparisonLoop(_, _, _),
          parseTerm(_), TermLoop(_, _, _), parseFactor(_), FactorLoop(_, _, _),
          parseUnary(_), parseCall(_), CallLoop(_, _), finishCall(_, _),
          ArgumentLoop(_, _), parsePrimary(_)

parsePrimary(p) ==
    LET kw == Par_match(p, <<"KEYWORD">>)
        keyword == Par_previous(kw.p)
        \* a keyword other than true/false stays consumed and falls through
        p1 == kw.p
        int == Par_match(p1, <<"INT_LITERAL">>)
        flt == Par_match(p1, <<"FLOAT_LITERAL">>)
        idt == Par_match(p1, <<"IDENTIFIER">>)
        lpar == Par_match(p1, <<"LEFT_PAREN">>)
    IN  IF kw.m /\ keyword.value \in {"true", "false"}
        THEN Ok(kw.p, LiteralNode("BooleanLiteral", keyword))
        ELSE IF int.m THEN Ok(int.p, LiteralNode("IntegerLiteral", Par_previous(int.p)))
        ELSE IF flt.m THEN Ok(flt.p, LiteralNode("FloatLiteral", Par_previous(flt.p)))
        ELSE IF idt.m THEN Ok(idt.p, LiteralNode("Identifier", Par_previous(idt.p)))
        ELSE IF lpar.m
             THEN With([expr \in {parseExpression(lpar.p)} |->
                      LET close == Par_consume(expr.p, "RIGHT_PAREN",
                                               "Expected \")\" after expression")
                      IN  IF ~expr.ok THEN expr
                          ELSE IF ~close.ok THEN close
                          ELSE Ok(close.p, expr.v)])
             ELSE Throw(Par_addError(p1, "Expected expression", Par_peek(p1)))

\* the do-while of finishCall, entered with the arguments read so far
ArgumentLoop(p, args) ==
    With([arg \in {parseExpression(p)} |->
        LET comma == Par_match(arg.p, <<"COMMA">>)
        IN  IF ~arg.ok THEN arg
            ELSE IF comma.m THEN ArgumentLoop(comma.p, Append(args, arg.v))
            ELSE Ok(comma.p, Append(args, arg.v))])

finishCall(p, callee) ==
    With([args \in {IF ~Par_check(p, "RIGHT_PAREN") THEN ArgumentLoop(p, <<>>)
                    ELSE Ok(p, <<>>)} |->
        LET close == Par_consume(args.p, "RIGHT_PAREN", "Expected \")\" after arguments")
        IN  IF ~args.ok THEN args
            ELSE IF ~close.ok THEN close
            ELSE Ok(close.p, [type |-> "CallExpression",
                              children |-> <<callee>> \o args.v,
                              line |-> callee.line, column |-> callee.column])])

\* the while (true) loop of parseCall
CallLoop(p, expr) ==
    LET lpar == Par_match(p, <<"LEFT_PAREN">>)
    IN  IF ~lpar.m THEN Ok(p, expr)
        ELSE With([call \in {finishCall(lpar.p, expr)} |->
                 IF ~call.ok THEN call ELSE CallLoop(call.p, call.v)])

parseCall(p) ==
    With([expr \in {parsePrimary(p)} |->
        IF ~expr.ok THEN expr ELSE CallLoop(expr.p, expr.v)])

\* parseUnary that takes a whole expression as the operand
UnaryOverExpression(p) ==
    LET op == Par_match(p, <<"LOGICAL_NOT", "MINUS">>)
        operator == Par_previous(op.p)
    IN  IF op.m
        THEN With([right \in {parseExpression(op.p)} |->
                 IF ~right.ok THEN right
                 ELSE Ok(right.p, [type |-> "UnaryExpression", value |-> operator.value,
                                   children |-> <<right.v>>, line |-> operator.line,
                                   column |-> operator.column])])
        ELSE parseCall(p)

parseUnary(p) ==
    LET op == Par_match(p, <<"LOGICAL_NOT", "MINUS">>)
        operator == Par_previous(op.p)
    IN  IF op.m
        THEN With([right \in {parseUnary(op.p)} |->
                 IF ~right.ok THEN right
                 ELSE Ok(right.p, [type |-> "UnaryExpression", value |-> operator.value,
                                   children |-> <<right.v>>, line |-> operator.line,
                                   column |-> operator.column])])
        ELSE parseCall(p)

\* the operands of a binary level are read at one place: the first as expr
\* (operator is null), each later one as the right of the operator matched
FactorLoop(p, operator, left) ==
    With([right \in {parseUnary(p)} |->
        LET expr == IF operator = null THEN right.v
                    ELSE BinaryNode(operator, left, right.v)
            op == Par_match(right.p,
                            <<"DIVIDE", "MULTIPLY">>)
        IN  IF ~right.ok THEN right
            ELSE IF op.m THEN FactorLoop(op.p, Par_previous(op.p), expr)
            ELSE Ok(op.p, expr)])

parseFactor(p) == FactorLoop(p, null, null)

TermLoop(p, operator, left) ==
    With([right \in {parseFactor(p)} |->
        LET expr == IF operator = null THEN right.v
                    ELSE BinaryNode(operator, left, right.v)
            op == Par_match(right.p,
                            <<"MINUS", "PLUS">>)
        IN  IF ~right.ok THEN right
            ELSE IF op.m THEN TermLoop(op.p, Par_previous(op.p), expr)
            ELSE Ok(op.p, expr)])

parseTerm(p) == TermLoop(p, null, null)

ComparisonLoop(p, operator, left) ==
    With([right \in {parseTerm(p)} |->
        LET expr == IF operator = null THEN right.v
                    ELSE BinaryNode(operator, left, right.v)
            op == Par_match(right.p,
                            <<"GREATER_THAN", "GREATER_EQUAL", "LESS_THAN", "LESS_EQUAL">>)
        IN  IF ~right.ok THEN right
            ELSE IF op.m THEN ComparisonLoop(op.p, Par_previous(op.p), expr)
            ELSE Ok(op.p, expr)])

parseComparison(p) == ComparisonLoop(p, null, null)

EqualityLoop(p, operator, left) ==
    With([right \in {parseComparison(p)} |->
        LET expr == IF operator = null THEN right.v
                    ELSE BinaryNode(operator, left, right.v)
            op == Par_match(right.p,
                            <<"EQUAL", "NOT_EQUAL">>)
        IN  IF ~right.ok THEN right
            ELSE IF op.m THEN EqualityLoop(op.p, Par_previous(op.p), expr)
            ELSE Ok(op.p, expr)])

parseEquality(p) == EqualityLoop(p, null, null)

LogicalAndLoop(p, operator, left) ==
    With([right \in {parseEquality(p)} |->
        LET expr == IF operator = null THEN right.v
                    ELSE BinaryNode(operator, left, right.v)
            op == Par_match(right.p,
                            <<"LOGICAL_AND">>)
        IN  IF ~right.ok THEN right
            ELSE IF op.m THEN LogicalAndLoop(op.p, Par_previous(op.p), expr)
            ELSE Ok(op.p, expr)])

parseLogicalAnd(p) == LogicalAndLoop(p, null, null)

LogicalOrLoop(p, operator, left) ==
    With([right \in {parseLogicalAnd(p)} |->
        LET expr == IF operator = null THEN right.v
                    ELSE BinaryNode(operator, left, right.v)
            op == Par_match(right.p,
                            <<"LOGICAL_OR">>)
        IN  IF ~right.ok THEN right
            ELSE IF op.m THEN LogicalOrLoop(op.p, Par_previous(op.p), expr)
            ELSE Ok(op.p, expr)])

parseLogicalOr(p) == LogicalOrLoop(p, null, null)

parseExpression(p) == parseLogicalOr(p)

parseVariableDeclaration(p, typeToken) ==
    LET name == Par_consume(p, "IDENTIFIER", "Expected variable name")
        assign == Par_match(name.p, <<"ASSIGN">>)
    IN  IF ~name.ok THEN name
        ELSE With([initializer \in {IF assign.m THEN parseExpression(assign.p)
                                    ELSE Ok(assign.p, null)} |->
                 LET semi == Par_consume(initializer.p, "SEMICOLON",
                                         "Expected \";\" after variable declaration")
                 IN  IF ~initializer.ok THEN initializer
                     ELSE IF ~semi.ok THEN semi
                     ELSE Ok(semi.p,
                             [type |-> "VariableDeclaration", value |-> name.v.value,
                              dataType |-> typeToken.value,
                              children |-> IF initializer.v # null
                                           THEN <<initializer.v>> ELSE <<>>,
                              line |-> typeToken.line, column |-> typeToken.column])])

parseReturnStatement(p) ==
    With([value \in {IF ~Par_check(p, "SEMICOLON") THEN parseExpression(p)
                     ELSE Ok(p, null)} |->
        LET semi == Par_consume(value.p, "SEMICOLON", "Expected \";\" after return value")
        IN  IF ~value.ok THEN value
            ELSE IF ~semi.ok THEN semi
            ELSE Ok(semi.p, [type |-> "ReturnStatement",
                             children |-> IF value.v # null THEN <<value.v>> ELSE <<>>])])

RECURSIVE parseBlock(_), BlockLoop(_, _), parseStatement(_), parseIfStatement(_),
          parseWhileStatement(_)

\* the else part of parseIfStatement, entered after the then block
ElseBranch(p, condition, thenBranch) ==
    LET \* match("KEYWORD") consumes the keyword before its value is compared
        kw == Par_match(p, <<"KEYWORD">>)
        isElse == kw.m /\ Par_previous(kw.p).value = "else"
    IN  With([elseBranch \in {IF isElse THEN parseBlock(kw.p) ELSE Ok(kw.p, null)} |->
            IF ~elseBranch.ok THEN elseBranch
            ELSE Ok(elseBranch.p,
                    [type |-> "IfStatement",
                     children |-> IF elseBranch.v # null
                                  THEN <<condition, thenBranch, elseBranch.v>>
                                  ELSE <<condition, thenBranch>>])])

parseIfStatement(p) ==
    LET lpar == Par_consume(p, "LEFT_PAREN", "Expected \"(\" after \"if\"")
    IN  IF ~lpar.ok THEN lpar
        ELSE With([condition \in {parseExpression(lpar.p)} |->
                 LET rpar == Par_consume(condition.p, "RIGHT_PAREN",
                                         "Expected \")\" after if condition")
                 IN  IF ~condition.ok THEN condition
                     ELSE IF ~rpar.ok THEN rpar
                     ELSE With([thenBranch \in {parseBlock(rpar.p)} |->
                              IF ~thenBranch.ok THEN thenBranch
                              ELSE ElseBranch(thenBranch.p, condition.v, thenBranch.v)])])

\* parseWhileStatement that leaves the condition out of the node
WhileBodyOnly(p) ==
    LET lpar == Par_consume(p, "LEFT_PAREN", "Expected \"(\" after \"while\"")
    IN  IF ~lpar.ok THEN lpar
        ELSE With([condition \in {parseExpression(lpar.p)} |->
                 LET rpar == Par_consume(condition.p, "RIGHT_PAREN",
                                         "Expected \")\" after while condition")
                 IN  IF ~condition.ok THEN condition
                     ELSE IF ~rpar.ok THEN rpar
                     ELSE With([body \in {parseBlock(rpar.p)} |->
                              IF ~body.ok THEN body
                              ELSE Ok(body.p, [type |-> "WhileStatement",
                                               children |-> <<body.v>>])])])

parseWhileStatement(p) ==
    LET lpar == Par_consume(p, "LEFT_PAREN", "Expected \"(\" after \"while\"")
    IN  IF ~lpar.ok THEN lpar
        ELSE With([condition \in {parseExpression(lpar.p)} |->
                 LET rpar == Par_consume(condition.p, "RIGHT_PAREN",
                                         "Expected \")\" after while condition")
                 IN  IF ~condition.ok THEN condition
                     ELSE IF ~rpar.ok THEN rpar
                     ELSE With([body \in {parseBlock(rpar.p)} |->
                              IF ~body.ok THEN body
                              ELSE Ok(body.p, [type |-> "WhileStatement",
                                               children |-> <<condition.v, body.v>>])])])

parseStatement(p) ==
    LET kw == Par_match(p, <<"KEYWORD">>)
        keyword == Par_previous(kw.p)
    IN  IF kw.m
        THEN IF keyword.value \in {"int", "float", "bool"}
                 THEN parseVariableDeclaration(kw.p, keyword)
             ELSE IF keyword.value = "if" THEN parseIfStatement(kw.p)
             ELSE IF keyword.value = "while" THEN parseWhileStatement(kw.p)
             ELSE IF keyword.value = "return" THEN parseReturnStatement(kw.p)
             ELSE Ok(Par_addError(kw.p, "Unexpected keyword: " \o keyword.value, keyword),
                     null)
        ELSE With([expr \in {parseExpression(p)} |->
                 LET semi == Par_consume(expr.p, "SEMICOLON",
                                         "Expected \";\" after expression")
                 IN  IF ~expr.ok THEN expr
                     ELSE IF ~semi.ok THEN semi
                     ELSE Ok(semi.p, [type |-> "ExpressionStatement",
                                      children |-> <<expr.v>>])])

\* the while loop of parseBlock, its try/catch included
BlockLoop(p, statements) ==
    IF ~Par_check(p, "RIGHT_BRACE") /\ ~Par_isAtEnd(p)
    THEN With([stmt \in {parseStatement(p)} |->
             IF ~stmt.ok THEN BlockLoop(synchronize(stmt.p), statements)
             ELSE IF stmt.v # null THEN BlockLoop(stmt.p, Append(statements, stmt.v))
             ELSE BlockLoop(stmt.p, statements)])
    ELSE Ok(p, statements)

parseBlock(p) ==
    LET lbrace == Par_consume(p, "LEFT_BRACE", "Expected \"{\"")
    IN  IF ~lbrace.ok THEN lbrace
        ELSE With([statements \in {BlockLoop(lbrace.p, <<>>)} |->
                 LET rbrace == Par_consume(statements.p, "RIGHT_BRACE", "Expected \"}\"")
                 IN  IF ~rbrace.ok THEN rbrace
                     ELSE Ok(rbrace.p, [type |-> "Block", children |-> statements.v])])

\* the do-while of parseParameterList
RECURSIVE ParameterLoop(_, _)
ParameterLoop(p, parameters) ==
    LET type == Par_consume(p, "KEYWORD", "Expected parameter type")
        name == Par_consume(type.p, "IDENTIFIER", "Expected parameter name")
        param == [type |-> "Parameter", value |-> name.v.value,
                  dataType |-> type.v.value, line |-> type.v.line,
                  column |-> type.v.column]
        comma == Par_match(name.p, <<"COMMA">>)
    IN  IF ~type.ok THEN type
        ELSE IF ~name.ok THEN name
        ELSE IF comma.m THEN ParameterLoop(comma.p, Append(parameters, param))
        ELSE Ok(comma.p, Append(parameters, param))

parseParameterList(p) ==
    IF Par_peek(p).type # "RIGHT_PAREN" THEN ParameterLoop(p, <<>>) ELSE Ok(p, <<>>)

\* the end of parseFunction, entered after the parameter list
FunctionBody(returnType, name, parameters) ==
    LET rpar == Par_consume(parameters.p, "RIGHT_PAREN", "Expected \")\" after parameters")
    IN  IF ~rpar.ok THEN rpar
        ELSE With([body \in {parseBlock(rpar.p)} |->
                 IF ~body.ok THEN body
                 ELSE Ok(body.p,
                         [type |-> "FunctionDeclaration", value |-> name.value,
                          dataType |-> returnType.value,
                          children |-> <<[type |-> "ParameterList",
                                          children |-> parameters.v],
                                         body.v>>,
                          line |-> returnType.line, column |-> returnType.column])])

parseFunction(p) ==
    LET returnType == Par_consume(p, "KEYWORD", "Expected return type")
        name == Par_consume(returnType.p, "IDENTIFIER", "Expected function name")
        lpar == Par_consume(name.p, "LEFT_PAREN", "Expected \"(\" after function name")
    IN  IF ~returnType.ok THEN returnType
        ELSE IF ~name.ok THEN name
        ELSE IF ~lpar.ok THEN lpar
        ELSE With([parameters \in {parseParameterList(lpar.p)} |->
                 IF ~parameters.ok THEN parameters
                 ELSE FunctionBody(returnType.v, name.v, parameters)])

\* the while loop of parseProgram, its try/catch included
RECURSIVE ProgramLoop(_, _)
ProgramLoop(p, functions) ==
    IF ~Par_isAtEnd(p) /\ Par_peek(p).type # "EOF"
    THEN With([func \in {parseFunction(p)} |->
             IF ~func.ok THEN ProgramLoop(synchronize(func.p), functions)
             ELSE ProgramLoop(func.p, Append(functions, func.v))])
    ELSE Ok(p, functions)

parseProgram(p) ==
    With([functions \in {ProgramLoop(p, <<>>)} |->
        Ok(functions.p, [type |-> "Program", children |-> functions.v])])

\* parse(): the instance after the call; the value returned is ParseResult
parse(p) == parseProgram(p)

ParseResult(r) == [ast |-> IF r.ok THEN r.v ELSE null, errors |-> r.p.errors]

----------------------------------------------------------------------------
(* SemanticAnalyzer.  A visit method returns [a, t]: the instance after the *)
(* call and the type string returned.                                       *)

\* a string | null field: <<>> is null, <<s>> is the string s
NoName == <<>>

\* the text a template literal gives an undefined value, and the value no
\* declared type (a keyword) is equal to
undefined == "undefined"

\* property names every object literal inherits from Object.prototype, so that
\* symbols[name] is truthy with no symbol of that name stored
ObjectPrototypeKeys == {"constructor", "toString", "valueOf", "hasOwnProperty",
                        "isPrototypeOf", "propertyIsEnumerable", "toLocaleString",
                        "__proto__", "__defineGetter__", "__defineSetter__",
                        "__lookupGetter__", "__lookupSetter__"}

\* what symbols[name] reads for an inherited property: an object with none of
\* the Symbol properties
InheritedProperty == [inherited |-> TRUE]

\* if (scope.symbols[name]) ...
HasSymbol(scope, name) == name \in DOMAIN scope.symbols \/ name \in ObjectPrototypeKeys

\* scope.symbols[name], where HasSymbol holds
GetSymbol(scope, name) ==
    IF name \in DOMAIN scope.symbols THEN scope.symbols[name] ELSE InheritedProperty

\* symbol.type, symbol.kind of what GetSymbol read
SymbolType(symbol) == IF "type" \in DOMAIN symbol THEN symbol.type ELSE undefined

SymbolKind(symbol) == IF "kind" \in DOMAIN symbol THEN symbol.kind ELSE undefined

\* new SemanticAnalyzer()
NewSemanticAnalyzer ==
    [symbolTable |-> [scopes |-> ("global" :> [name |-> "global", symbols |-> <<>>]),
                      currentScope |-> "global"],
     errors |-> <<>>,
     currentFunction |-> NoName]

GlobalScope(a) == a.symbolTable.scopes["global"]

CurrentScope(a) == a.symbolTable.scopes[a.symbolTable.currentScope]

\* node.line || 0, node.column || 0
LineOrZero(node) == IF "line" \in DOMAIN node THEN node.line ELSE 0

ColumnOrZero(node) == IF "column" \in DOMAIN node THEN node.column ELSE 0

Sem_addError(a, message, node) ==
    [a EXCEPT !.errors = Append(@, [message |-> message, line |-> LineOrZero(node),
                                    column |-> ColumnOrZero(node)])]

\* currentScope.symbols[name] = symbol
DefineSymbol(a, scopeName, name, symbol) ==
    [a EXCEPT !.symbolTable.scopes[scopeName].symbols = (name :> symbol) @@ @]

\* isTypeCompatible that widens int to float in either direction
isTypeCompatibleEitherWay(expected, actual) ==
    IF expected = actual THEN TRUE
    ELSE IF {expected, actual} = {"float", "int"} THEN TRUE
    ELSE FALSE

isTypeCompatible(expected, actual) ==
    IF expected = actual THEN TRUE
    ELSE IF expected = "float" /\ actual = "int" THEN TRUE
    ELSE FALSE

isNumericType(type) == type = "int" \/ type = "float"

getResultType(leftType, rightType) ==
    IF leftType = "float" \/ rightType = "float" THEN "float" ELSE "int"

\* null when neither scope has the name
lookupSymbol(a, name) ==
    IF HasSymbol(CurrentScope(a), name) THEN GetSymbol(CurrentScope(a), name)
    ELSE IF HasSymbol(GlobalScope(a), name) THEN GetSymbol(GlobalScope(a), name)
    ELSE null

HasChildren(node) == "children" \in DOMAIN node

\* ${i}: the decimal text of a number
NumText(n) == ToString(n)

RECURSIVE Sem_visit(_, _), VisitEach(_, _, _), CheckArguments(_, _, _, _, _)

\* for (const child of children) this.visit(child), from child i on
VisitEach(a, children, i) ==
    IF i > Len(children) THEN a
    ELSE VisitEach(Sem_visit(a, children[i]).a, children, i + 1)

Sem_visitProgram(a, node) ==
    [a |-> IF HasChildren(node) THEN VisitEach(a, node.children, 1) ELSE a, t |-> "void"]

\* the parameter symbols a function symbol carries
ParameterSymbols(node) ==
    IF HasChildren(node) /\ Len(node.children) > 0
       /\ node.children[1].type = "ParameterList"
       /\ HasChildren(node.children[1])
    THEN [i \in 1..Len(node.children[1].children) |->
            LET param == node.children[1].children[i]
            IN  [name |-> param.value, type |-> param.dataType, kind |-> "parameter",
                 line |-> param.line, column |-> param.column]]
    ELSE <<>>

Sem_visitFunctionDeclaration(a, node) ==
    LET functionName == node.value
        returnType == node.dataType
        scopeName == "function_" \o functionName
        a1 == [a EXCEPT !.symbolTable.scopes =
                   (scopeName :> [name |-> scopeName, symbols |-> <<>>,
                                  parent |-> "global"]) @@ @]
        a2 == DefineSymbol(a1, "global", functionName,
                  [name |-> functionName, type |-> returnType, kind |-> "function",
                   line |-> node.line, column |-> node.column,
                   parameters |-> ParameterSymbols(node), returnType |-> returnType])
        previousScope == a.symbolTable.currentScope
        previousFunction == a.currentFunction
        a3 == [a2 EXCEPT !.symbolTable.currentScope = scopeName,
                         !.currentFunction = <<functionName>>]
        a4 == IF HasChildren(node) THEN VisitEach(a3, node.children, 1) ELSE a3
    IN  IF HasSymbol(GlobalScope(a), functionName)
        THEN [a |-> Sem_addError(a, "Function '" \o functionName \o "' already declared",
                                 node),
              t |-> "void"]
        ELSE [a |-> [a4 EXCEPT !.symbolTable.currentScope = previousScope,
                               !.currentFunction = previousFunction],
              t |-> "void"]

Sem_visitParameterList(a, node) ==
    [a |-> IF HasChildren(node) THEN VisitEach(a, node.children, 1) ELSE a, t |-> "void"]

Sem_visitParameter(a, node) ==
    LET paramName == node.value
        paramType == node.dataType
    IN  [a |-> IF HasSymbol(CurrentScope(a), paramName)
               THEN Sem_addError(a, "Parameter '" \o paramName \o "' already declared", node)
               ELSE DefineSymbol(a, a.symbolTable.currentScope, paramName,
                        [name |-> paramName, type |-> paramType, kind |-> "parameter",
                         line |-> node.line, column |-> node.column]),
         t |-> paramType]

Sem_visitBlock(a, node) ==
    [a |-> IF HasChildren(node) THEN VisitEach(a, node.children, 1) ELSE a, t |-> "void"]

\* visitVariableDeclaration that reports a redeclaration and stores the new
\* symbol all the same
VariableDeclarationOverwrites(a, node) ==
    LET varName == node.value
        varType == node.dataType
        defined == DefineSymbol(a, a.symbolTable.currentScope, varName,
                       [name |-> varName, type |-> varType, kind |-> "variable",
                        line |-> node.line, column |-> node.column])
        a1 == IF HasSymbol(CurrentScope(a), varName)
              THEN Sem_addError(defined, "Variable '" \o varName
                                         \o "' already declared in this scope", node)
              ELSE defined
        init == Sem_visit(a1, node.children[1])
    IN  IF HasChildren(node) /\ Len(node.children) > 0
        THEN [a |-> IF ~isTypeCompatible(varType, init.t)
                    THEN Sem_addError(init.a, "Cannot assign " \o init.t \o " to "
                                              \o varType, node)
                    ELSE init.a,
              t |-> varType]
        ELSE [a |-> a1, t |-> varType]

Sem_visitVariableDeclaration(a, node) ==
    LET varName == node.value
        varType == node.dataType
        a1 == IF HasSymbol(CurrentScope(a), varName)
              THEN Sem_addError(a, "Variable '" \o varName
                                   \o "' already declared in this scope", node)
              ELSE DefineSymbol(a, a.symbolTable.currentScope, varName,
                       [name |-> varName, type |-> varType, kind |-> "variable",
                        line |-> node.line, column |-> node.column])
        init == Sem_visit(a1, node.children[1])
    IN  IF HasChildren(node) /\ Len(node.children) > 0
        THEN [a |-> IF ~isTypeCompatible(varType, init.t)
                    THEN Sem_addError(init.a, "Cannot assign " \o init.t \o " to "
                                              \o varType, node)
                    ELSE init.a,
              t |-> varType]
        ELSE [a |-> a1, t |-> varType]

Sem_visitIfStatement(a, node) ==
    LET cond == Sem_visit(a, node.children[1])
        a1 == IF cond.t # "bool"
              THEN Sem_addError(cond.a, "If condition must be boolean", node.children[1])
              ELSE cond.a
        a2 == IF Len(node.children) > 1 THEN Sem_visit(a1, node.children[2]).a ELSE a1
        a3 == IF Len(node.children) > 2 THEN Sem_visit(a2, node.children[3]).a ELSE a2
    IN  [a |-> IF HasChildren(node) /\ Len(node.children) > 0 THEN a3 ELSE a,
         t |-> "void"]

Sem_visitWhileStatement(a, node) ==
    LET cond == Sem_visit(a, node.children[1])
        a1 == IF cond.t # "bool"
              THEN Sem_addError(cond.a, "While condition must be boolean",
                                node.children[1])
              ELSE cond.a
        a2 == IF Len(node.children) > 1 THEN Sem_visit(a1, node.children[2]).a ELSE a1
    IN  [a |-> IF HasChildren(node) /\ Len(node.children) > 0 THEN a2 ELSE a,
         t |-> "void"]

Sem_visitReturnStatement(a, node) ==
    LET functionSymbol == GlobalScope(a).symbols[a.currentFunction[1]]
        expectedReturnType == functionSymbol.returnType
        value == Sem_visit(a, node.children[1])
    IN  IF a.currentFunction = NoName
        THEN [a |-> Sem_addError(a, "Return statement outside function", node),
              t |-> "void"]
        ELSE IF HasChildren(node) /\ Len(node.children) > 0
        THEN [a |-> IF ~isTypeCompatible(expectedReturnType, value.t)
                    THEN Sem_addError(value.a, "Function must return "
                                               \o expectedReturnType \o ", got "
                                               \o value.t, node)
                    ELSE value.a,
              t |-> "void"]
        ELSE [a |-> IF expectedReturnType # "void"
                    THEN Sem_addError(a, "Function must return " \o expectedReturnType,
                                      node)
                    ELSE a,
              t |-> "void"]

Sem_visitExpressionStatement(a, node) ==
    IF HasChildren(node) /\ Len(node.children) > 0
    THEN Sem_visit(a, node.children[1])
    ELSE [a |-> a, t |-> "void"]

Sem_visitBinaryExpression(a, node) ==
    LET left == Sem_visit(a, node.children[1])
        right == Sem_visit(left.a, node.children[2])
        leftType == left.t
        rightType == right.t
        operator == node.value
        got == ", got " \o leftType \o " and " \o rightType
    IN  IF ~HasChildren(node) \/ Len(node.children) < 2 THEN [a |-> a, t |-> "unknown"]
        ELSE IF operator \in {"+", "-", "*", "/"}
        THEN IF isNumericType(leftType) /\ isNumericType(rightType)
             THEN [a |-> right.a, t |-> getResultType(leftType, rightType)]
             ELSE [a |-> Sem_addError(right.a, "Arithmetic operation requires numeric types"
                                               \o got, node),
                   t |-> "unknown"]
        ELSE IF operator \in {"==", "!="}
        THEN IF isTypeCompatible(leftType, rightType)
             THEN [a |-> right.a, t |-> "bool"]
             ELSE [a |-> Sem_addError(right.a, "Comparison requires compatible types"
                                               \o got, node),
                   t |-> "bool"]
        ELSE IF operator \in {"<", ">", "<=", ">="}
        THEN IF isNumericType(leftType) /\ isNumericType(rightType)
             THEN [a |-> right.a, t |-> "bool"]
             ELSE [a |-> Sem_addError(right.a, "Comparison requires numeric types"
                                               \o got, node),
                   t |-> "bool"]
        ELSE IF operator \in {"&&", "||"}
        THEN IF leftType = "bool" /\ rightType = "bool"
             THEN [a |-> right.a, t |-> "bool"]
             ELSE [a |-> Sem_addError(right.a, "Logical operation requires boolean types"
                                               \o got, node),
                   t |-> "bool"]
        ELSE [a |-> Sem_addError(right.a, "Unknown binary operator: " \o operator, node),
              t |-> "unknown"]

Sem_visitUnaryExpression(a, node) ==
    LET operand == Sem_visit(a, node.children[1])
        operandType == operand.t
        operator == node.value
    IN  IF ~HasChildren(node) \/ Len(node.children) < 1 THEN [a |-> a, t |-> "unknown"]
        ELSE IF operator = "-"
        THEN IF isNumericType(operandType)
             THEN [a |-> operand.a, t |-> operandType]
             ELSE [a |-> Sem_addError(operand.a, "Unary minus requires numeric type, got "
                                                 \o operandType, node),
                   t |-> operandType]
        ELSE IF operator = "!"
        THEN IF operandType = "bool"
             THEN [a |-> operand.a, t |-> "bool"]
             ELSE [a |-> Sem_addError(operand.a, "Logical not requires boolean type, got "
                                                 \o operandType, node),
                   t |-> "bool"]
        ELSE [a |-> Sem_addError(operand.a, "Unknown unary operator: " \o operator, node),
              t |-> "unknown"]

\* the for loop over the arguments of a call whose arity matches, from
\* argument i (counted from 1) on
CheckArguments(a, functionName, args, expectedParams, i) ==
    IF i > Len(args) THEN a
    ELSE LET arg == Sem_visit(a, args[i])
             expectedType == expectedParams[i].type
             a1 == IF ~isTypeCompatible(expectedType, arg.t)
                   THEN Sem_addError(arg.a, "Argument " \o NumText(i) \o " to '"
                                            \o functionName \o "' must be "
                                            \o expectedType \o ", got " \o arg.t, args[i])
                   ELSE arg.a
         IN  CheckArguments(a1, functionName, args, expectedParams, i + 1)

Sem_visitCallExpression(a, node) ==
    LET callee == node.children[1]
        functionName == callee.value
        functionSymbol == lookupSymbol(a, functionName)
        args == SubSeq(node.children, 2, Len(node.children))
        expectedParams == IF "parameters" \in DOMAIN functionSymbol
                          THEN functionSymbol.parameters ELSE <<>>
        returned == IF "returnType" \in DOMAIN functionSymbol
                    THEN functionSymbol.returnType ELSE "void"
    IN  IF ~HasChildren(node) \/ Len(node.children) < 1 THEN [a |-> a, t |-> "unknown"]
        ELSE IF callee.type # "Identifier"
        THEN [a |-> Sem_addError(a, "Can only call functions", node), t |-> "unknown"]
        ELSE IF functionSymbol = null
        THEN [a |-> Sem_addError(a, "Undefined function: " \o functionName, callee),
              t |-> "unknown"]
        ELSE IF SymbolKind(functionSymbol) # "function"
        THEN [a |-> Sem_addError(a, "'" \o functionName \o "' is not a function", callee),
              t |-> "unknown"]
        ELSE IF Len(args) # Len(expectedParams)
        THEN [a |-> Sem_addError(a, "Function '" \o functionName \o "' expects "
                                    \o NumText(Len(expectedParams)) \o " arguments, got "
                                    \o NumText(Len(args)), node),
              t |-> returned]
        ELSE [a |-> CheckArguments(a, functionName, args, expectedParams, 1),
              t |-> returned]

Sem_visitIdentifier(a, node) ==
    LET name == node.value
        symbol == lookupSymbol(a, name)
    IN  IF symbol = null
        THEN [a |-> Sem_addError(a, "Undefined identifier: " \o name, node),
              t |-> "unknown"]
        ELSE [a |-> a, t |-> SymbolType(symbol)]

Sem_visit(a, node) ==
    CASE node.type = "Program" -> Sem_visitProgram(a, node)
      [] node.type = "FunctionDeclaration" -> Sem_visitFunctionDeclaration(a, node)
      [] node.type = "ParameterList" -> Sem_visitParameterList(a, node)
      [] node.type = "Parameter" -> Sem_visitParameter(a, node)
      [] node.type = "Block" -> Sem_visitBlock(a, node)
      [] node.type = "VariableDeclaration" -> Sem_visitVariableDeclaration(a, node)
      [] node.type = "IfStatement" -> Sem_visitIfStatement(a, node)
      [] node.type = "WhileStatement" -> Sem_visitWhileStatement(a, node)
      [] node.type = "ReturnStatement" -> Sem_visitReturnStatement(a, node)
      [] node.type = "ExpressionStatement" -> Sem_visitExpressionStatement(a, node)
      [] node.type = "BinaryExpression" -> Sem_visitBinaryExpression(a, node)
      [] node.type = "UnaryExpression" -> Sem_visitUnaryExpression(a, node)
      [] node.type = "CallExpression" -> Sem_visitCallExpression(a, node)
      [] node.type = "Identifier" -> Sem_visitIdentifier(a, node)
      [] node.type = "IntegerLiteral" -> [a |-> a, t |-> "int"]
      [] node.type = "FloatLiteral" -> [a |-> a, t |-> "float"]
      [] node.type = "BooleanLiteral" -> [a |-> a, t |-> "bool"]
      [] OTHER -> [a |-> a, t |-> "unknown"]

\* analyze(ast): the instance after the call; the value returned is SemResult
analyze(a, node) == Sem_visit(a, node).a

SemResult(a) == [symbolTable |-> a.symbolTable, errors |-> a.errors]

----------------------------------------------------------------------------
(* IntermediateCodeGenerator.  A visit method returns [g, v]: the instance  *)
(* after the call and the string returned.                                  *)

\* new IntermediateCodeGenerator(): the field initialisers
NewIntermediateCodeGenerator == [code |-> <<>>, tempCounter |-> 0, labelCounter |-> 0]

emit(g, instruction) == [g EXCEPT !.code = Append(@, instruction)]

\* `t${this.tempCounter++}`
newTemp(g) == [g |-> [g EXCEPT !.tempCounter = @ + 1], v |-> "t" \o NumText(g.tempCounter)]

\* `L${this.labelCounter++}`
newLabel(g) ==
    [g |-> [g EXCEPT !.labelCounter = @ + 1], v |-> "L" \o NumText(g.labelCounter)]

RECURSIVE Gen_visit(_, _), Gen_visitEach(_, _, _), VisitArguments(_, _, _, _),
          EmitParams(_, _, _)

\* for (const child of children) this.visit(child), from child i on
Gen_visitEach(g, children, i) ==
    IF i > Len(children) THEN g
    ELSE Gen_visitEach(Gen_visit(g, children[i]).g, children, i + 1)

Gen_visitProgram(g, node) ==
    [g |-> IF HasChildren(node) THEN Gen_visitEach(g, node.children, 1) ELSE g, v |-> ""]

\* the loop of visitFunctionDeclaration: only Block children are visited
RECURSIVE VisitBlocksOf(_, _, _)
VisitBlocksOf(g, children, i) ==
    IF i > Len(children) THEN g
    ELSE VisitBlocksOf(IF children[i].type = "Block" THEN Gen_visit(g, children[i]).g
                       ELSE g,
                       children, i + 1)

Gen_visitFunctionDeclaration(g, node) ==
    LET functionName == node.value
        g1 == emit(g, "FUNCTION " \o functionName \o ":")
        g2 == IF HasChildren(node) THEN VisitBlocksOf(g1, node.children, 1) ELSE g1
    IN  [g |-> emit(g2, "END_FUNCTION " \o functionName), v |-> ""]

Gen_visitBlock(g, node) ==
    [g |-> IF HasChildren(node) THEN Gen_visitEach(g, node.children, 1) ELSE g, v |-> ""]

Gen_visitVariableDeclaration(g, node) ==
    LET varName == node.value
        init == Gen_visit(g, node.children[1])
    IN  IF HasChildren(node) /\ Len(node.children) > 0
        THEN [g |-> emit(init.g, varName \o " = " \o init.v), v |-> varName]
        ELSE [g |-> emit(g, "DECLARE " \o varName), v |-> varName]

Gen_visitIfStatement(g, node) ==
    LET condition == Gen_visit(g, node.children[1])
        elseLabel == newLabel(condition.g)
        endLabel == newLabel(elseLabel.g)
        g1 == emit(endLabel.g, "IF_FALSE " \o condition.v \o " GOTO " \o elseLabel.v)
        g2 == Gen_visit(g1, node.children[2]).g
        g3 == emit(emit(g2, "GOTO " \o endLabel.v), elseLabel.v \o ":")
        g4 == Gen_visit(g3, node.children[3]).g
    IN  IF ~HasChildren(node) \/ Len(node.children) < 2 THEN [g |-> g, v |-> ""]
        ELSE IF Len(node.children) > 2
        THEN [g |-> emit(g4, endLabel.v \o ":"), v |-> ""]
        ELSE [g |-> emit(g2, elseLabel.v \o ":"), v |-> ""]

\* visitWhileStatement without the instruction that defines the end label
WhileWithoutEndLabel(g, node) ==
    LET startLabel == newLabel(g)
        endLabel == newLabel(startLabel.g)
        g1 == emit(endLabel.g, startLabel.v \o ":")
        condition == Gen_visit(g1, node.children[1])
        g2 == emit(condition.g, "IF_FALSE " \o condition.v \o " GOTO " \o endLabel.v)
        g3 == Gen_visit(g2, node.children[2]).g
    IN  IF ~HasChildren(node) \/ Len(node.children) < 2 THEN [g |-> g, v |-> ""]
        ELSE [g |-> emit(g3, "GOTO " \o startLabel.v), v |-> ""]

Gen_visitWhileStatement(g, node) ==
    LET startLabel == newLabel(g)
        endLabel == newLabel(startLabel.g)
        g1 == emit(endLabel.g, startLabel.v \o ":")
        condition == Gen_visit(g1, node.children[1])
        g2 == emit(condition.g, "IF_FALSE " \o condition.v \o " GOTO " \o endLabel.v)
        g3 == Gen_visit(g2, node.children[2]).g
    IN  IF ~HasChildren(node) \/ Len(node.children) < 2 THEN [g |-> g, v |-> ""]
        ELSE [g |-> emit(emit(g3, "GOTO " \o startLabel.v), endLabel.v \o ":"), v |-> ""]

Gen_visitReturnStatement(g, node) ==
    LET returnValue == Gen_visit(g, node.children[1])
    IN  IF HasChildren(node) /\ Len(node.children) > 0
        THEN [g |-> emit(returnValue.g, "RETURN " \o returnValue.v), v |-> ""]
        ELSE [g |-> emit(g, "RETURN"), v |-> ""]

Gen_visitExpressionStatement(g, node) ==
    IF HasChildren(node) /\ Len(node.children) > 0
    THEN Gen_visit(g, node.children[1])
    ELSE [g |-> g, v |-> ""]

Gen_visitBinaryExpression(g, node) ==
    LET left == Gen_visit(g, node.children[1])
        right == Gen_visit(left.g, node.children[2])
        temp == newTemp(right.g)
        operator == node.value
    IN  IF ~HasChildren(node) \/ Len(node.children) < 2 THEN [g |-> g, v |-> ""]
        ELSE [g |-> emit(temp.g, temp.v \o " = " \o left.v \o " " \o operator \o " "
                                 \o right.v),
              v |-> temp.v]

Gen_visitUnaryExpression(g, node) ==
    LET operand == Gen_visit(g, node.children[1])
        temp == newTemp(operand.g)
        operator == node.value
    IN  IF ~HasChildren(node) \/ Len(node.children) < 1 THEN [g |-> g, v |-> ""]
        ELSE [g |-> emit(temp.g, temp.v \o " = " \o operator \o operand.v), v |-> temp.v]

\* args.map((arg) => this.visit(arg)): [g, v] with v the sequence of strings
VisitArguments(g, args, i, argTemps) ==
    IF i > Len(args) THEN [g |-> g, v |-> argTemps]
    ELSE LET arg == Gen_visit(g, args[i])
         IN  VisitArguments(arg.g, args, i + 1, Append(argTemps, arg.v))

\* for (const argTemp of argTemps) this.emit(`PARAM ${argTemp}`)
EmitParams(g, argTemps, i) ==
    IF i > Len(argTemps) THEN g
    ELSE EmitParams(emit(g, "PARAM " \o argTemps[i]), argTemps, i + 1)

Gen_visitCallExpression(g, node) ==
    LET callee == node.children[1]
        functionName == IF "value" \in DOMAIN callee THEN callee.value ELSE undefined
        args == SubSeq(node.children, 2, Len(node.children))
        argTemps == VisitArguments(g, args, 1, <<>>)
        g1 == EmitParams(argTemps.g, argTemps.v, 1)
        temp == newTemp(g1)
    IN  IF ~HasChildren(node) \/ Len(node.children) < 1 THEN [g |-> g, v |-> ""]
        ELSE [g |-> emit(temp.g, temp.v \o " = CALL " \o functionName \o ", "
                                 \o NumText(Len(argTemps.v))),
              v |-> temp.v]

Gen_visit(g, node) ==
    CASE node.type = "Program" -> Gen_visitProgram(g, node)
      [] node.type = "FunctionDeclaration" -> Gen_visitFunctionDeclaration(g, node)
      [] node.type = "Block" -> Gen_visitBlock(g, node)
      [] node.type = "VariableDeclaration" -> Gen_visitVariableDeclaration(g, node)
      [] node.type = "IfStatement" -> Gen_visitIfStatement(g, node)
      [] node.type = "WhileStatement" -> Gen_visitWhileStatement(g, node)
      [] node.type = "ReturnStatement" -> Gen_visitReturnStatement(g, node)
      [] node.type = "ExpressionStatement" -> Gen_visitExpressionStatement(g, node)
      [] node.type = "BinaryExpression" -> Gen_visitBinaryExpression(g, node)
      [] node.type = "UnaryExpression" -> Gen_visitUnaryExpression(g, node)
      [] node.type = "CallExpression" -> Gen_visitCallExpression(g, node)
      [] node.type = "Identifier" -> [g |-> g, v |-> node.value]
      [] node.type \in {"IntegerLiteral", "FloatLiteral", "BooleanLiteral"} ->
            [g |-> g, v |-> node.value]
      [] OTHER -> [g |-> g, v |-> ""]

\* generate without the three resets it starts with
GenerateWithoutReset(g, node) == Gen_visit(g, node).g

\* generate(ast, symbolTable): the instance after the call; the value returned
\* is its code
generate(g, node) ==
    Gen_visit([g EXCEPT !.code = <<>>, !.tempCounter = 0, !.labelCounter = 0], node).g

----------------------------------------------------------------------------
(* Source texts the page is given *)

\* the editor's initial text
sampleCode ==
    <<"i","n","t"," ","m","a","x","(","i","n","t"," ","a",","," ","i","n","t"," ","b",
      ")"," ","{","\n"," "," "," "," ","i","f"," ","(","a"," ",">"," ","b",")"," ","{",
      "\n"," "," "," "," "," "," "," "," ","r","e","t","u","r","n"," ","a",";","\n"," ",
      " "," "," ","}"," ","e","l","s","e"," ","{","\n"," "," "," "," "," "," "," "," ",
      "r","e","t","u","r","n"," ","b",";","\n"," "," "," "," ","}","\n","}","\n","\n",
      "i","n","t"," ","m","a","i","n","(",")"," ","{","\n"," "," "," "," ","i","n","t",
      " ","x"," ","="," ","1","0",";","\n"," "," "," "," ","i","n","t"," ","y"," ","=",
      " ","2","0",";","\n"," "," "," "," ","i","n","t"," ","z"," ","="," ","m","a","x",
      "(","x",","," ","y",")",";","\n"," "," "," "," ","r","e","t","u","r","n"," ","0",
      ";","\n","}">>

\* no diagnostic in any phase
SrcReturnZero ==
    <<"i","n","t"," ","m","a","i","n","(",")"," ","{"," ","r","e","t","u","r","n"," ",
      "0",";"," ","}">>

\* an undeclared identifier as the return value
SrcUndefinedReturn ==
    <<"i","n","t"," ","m","a","i","n","(",")","{"," ","r","e","t","u","r","n"," ","x",
      ";"," ","}">>

\* the same fault in a function with a parameter
SrcUndefinedReturnParam ==
    <<"i","n","t"," ","f","(","i","n","t"," ","a",")","{"," ","r","e","t","u","r","n",
      " ","y",";"," ","}">>

\* a variable declared twice
SrcRedeclared ==
    <<"i","n","t"," ","m","a","i","n","(",")","{"," ","i","n","t"," ","x"," ","="," ",
      "1",";"," ","i","n","t"," ","x"," ","="," ","2",";"," ","r","e","t","u","r","n",
      " ","0",";"," ","}">>

\* a lexical diagnostic
SrcInvalidChar ==
    <<"i","n","t"," ","m","a","i","n","(",")"," ","{"," ","r","e","t","u","r","n"," ",
      "0"," ","@",";"," ","}">>

\* a parse diagnostic
SrcMissingSemicolon ==
    <<"i","n","t"," ","m","a","i","n","(",")"," ","{"," ","r","e","t","u","r","n"," ",
      "0"," ","}">>

\* a loop around an if without else
SrcLoop ==
    <<"i","n","t"," ","f","(","i","n","t"," ","a",")","{"," ","w","h","i","l","e"," ",
      "(","a"," ","<"," ","1",")"," ","{"," ","i","f"," ","(","a"," ",">"," ","0",")",
      " ","{"," ","f","(","a",")",";"," ","}"," ","}"," ","r","e","t","u","r","n"," ",
      "a",";"," ","}">>

PageSources == {sampleCode, SrcReturnZero, SrcUndefinedReturn, SrcUndefinedReturnParam,
                SrcRedeclared, SrcInvalidChar, SrcMissingSemicolon, SrcLoop, <<>>}

\* compiles one page runs
MaxCompiles == 3

\* characters of the texts the lexer is given alone, and their length
LexAlphabet == {"a", "1", ".", "=", "!", "&", "@", " ", "\t", "\r", "\n", ";", "_"}

MaxSrcLen == 3

LexSources == SeqsUpTo(LexAlphabet, MaxSrcLen)

\* tokenize calls on one lexer
MaxTokenizeCalls == 2

----------------------------------------------------------------------------
(* The page component MiniLangCompiler *)

PageInit ==
    /\ sourceCode = sampleCode
    /\ tokens = <<>>
    /\ ast = null
    /\ symbolTable = null
    /\ semanticErrors = <<>>
    /\ intermediateCode = <<>>
    /\ lexicalErrors = <<>>
    /\ syntaxErrors = <<>>
    /\ isCompiling = FALSE
    /\ locals = <<>>
    /\ compiles = 0

\* no class instance exists outside a compile
UnitIdle ==
    /\ lexer = null
    /\ lexResult = null
    /\ lexCalls = 0
    /\ parser = null
    /\ parseResult = null
    /\ analyzer = null
    /\ semResult = null
    /\ codeGen = null
    /\ genReturned = <<>>
    /\ otherRun = null

\* onChange of the editor: setSourceCode(e.target.value)
SetSourceCode(text) ==
    /\ compiles < MaxCompiles
    /\ text # sourceCode
    /\ sourceCode' = text
    /\ UNCHANGED <<tokens, ast, symbolTable, semanticErrors, intermediateCode,
                   lexicalErrors, syntaxErrors, isCompiling, locals, compiles>>
    /\ UNCHANGED unitVars

\* if (lexResult.errors.length === 0)
ParserGate(lexR) == Len(lexR.errors) = 0

\* if (parseResult.errors.length === 0 && parseResult.ast)
AnalyzerGate(parseR) == Len(parseR.errors) = 0 /\ parseR.ast # null

GeneratorGateOpen(semR) == TRUE

\* if (semanticResult.errors.length === 0)
GeneratorGate(semR) == Len(semR.errors) = 0

\* the compile handler, from setIsCompiling(true) to setIsCompiling(false); no
\* phase throws, so the catch clause is never entered
Compile ==
    /\ compiles < MaxCompiles
    /\ ~isCompiling
    /\ LET lexR == LexResult(tokenize(NewLexicalAnalyzer(sourceCode)))
           runParser == ParserGate(lexR)
           parseR == ParseResult(parse(NewParser(lexR.tokens)))
           runAnalyzer == runParser /\ AnalyzerGate(parseR)
           semR == SemResult(analyze(NewSemanticAnalyzer, parseR.ast))
           runGenerator == runAnalyzer /\ GeneratorGate(semR)
           tacCode == generate(NewIntermediateCodeGenerator, parseR.ast).code
       IN  /\ tokens' = lexR.tokens
           /\ lexicalErrors' = lexR.errors
           /\ ast' = IF runParser THEN parseR.ast ELSE ast
           /\ syntaxErrors' = IF runParser THEN parseR.errors ELSE syntaxErrors
           /\ symbolTable' = IF runAnalyzer THEN semR.symbolTable ELSE symbolTable
           /\ semanticErrors' = IF runAnalyzer THEN semR.errors ELSE semanticErrors
           /\ intermediateCode' = IF runGenerator THEN tacCode ELSE intermediateCode
           /\ locals' = [lexResult |-> lexR]
                        @@ (IF runParser THEN [parseResult |-> parseR] ELSE <<>>)
                        @@ (IF runAnalyzer THEN [semanticResult |-> semR] ELSE <<>>)
                        @@ (IF runGenerator THEN [tacCode |-> tacCode] ELSE <<>>)
    /\ isCompiling' = FALSE
    /\ compiles' = compiles + 1
    /\ UNCHANGED sourceCode
    /\ UNCHANGED unitVars

Init == PageInit /\ UnitIdle

Next ==
    \/ \E text \in PageSources : SetSourceCode(text)
    \/ Compile

Spec == Init /\ [][Next]_vars

----------------------------------------------------------------------------
(* The lexical analyzer alone, over every short text *)

InitLex ==
    /\ PageInit
    /\ lexer \in {NewLexicalAnalyzer(source) : source \in LexSources}
    /\ lexResult = null
    /\ lexCalls = 0
    /\ parser = null
    /\ parseResult = null
    /\ analyzer = null
    /\ semResult = null
    /\ codeGen = null
    /\ genReturned = <<>>
    /\ otherRun = null

\* lexer.tokenize(); the value returned aliases the instance's arrays, so the
\* calls are made before a parser is given the tokens
Tokenize ==
    /\ lexCalls < MaxTokenizeCalls
    /\ parser = null
    /\ lexer' = tokenize(lexer)
    /\ lexResult' = LexResult(lexer')
    /\ lexCalls' = lexCalls + 1
    /\ UNCHANGED <<parser, parseResult, analyzer, semResult, codeGen, genReturned,
                   otherRun>>
    /\ UNCHANGED pageVars

NextLex == Tokenize

SpecLex == InitLex /\ [][NextLex]_vars

\* tokenize() on a new lexer, one iteration of its while loop per step
ScanStep ==
    /\ lexResult = null
    /\ lexer.position < Len(lexer.source)
    /\ lexer' = ScanIteration(lexer)
    /\ UNCHANGED <<lexResult, lexCalls, parser, parseResult, analyzer, semResult, codeGen,
                   genReturned, otherRun>>
    /\ UNCHANGED pageVars

\* the loop left: addToken("EOF", "") and the return
ScanEnd ==
    /\ lexResult = null
    /\ lexer.position >= Len(lexer.source)
    /\ lexer' = Lex_addToken(lexer, "EOF", "")
    /\ lexResult' = LexResult(lexer')
    /\ lexCalls' = lexCalls + 1
    /\ UNCHANGED <<parser, parseResult, analyzer, semResult, codeGen, genReturned,
                   otherRun>>
    /\ UNCHANGED pageVars

NextScan ==
    \/ ScanStep
    \/ ScanEnd

SpecScan == InitLex /\ [][NextScan]_vars

\* the call runs on: a loop that can iterate does, and the return follows
FairScan == SpecScan /\ WF_vars(NextScan)

----------------------------------------------------------------------------
(* Source texts the classes are given: programs generated from the grammar  *)
(* within a size, every one-word edit of a program, and some texts apart    *)

\* statements in a generated function body, nested ones counted
MaxStmts == 3

\* operators, calls and parentheses in a generated expression
MaxExprOps == 2

\* statements in a generated body of declarations
MaxDecls == 2

\* generate calls on one generator
MaxGenerateCalls == 2

FunctionHead == <<"i","n","t"," ","f","(","i","n","t"," ","a",")","{">>

SimpleStmts == {<<"f","(","a",")",";">>}

IfHead == <<"i","f","(","a","<","1",")","{">>

ElseHead == <<"}","e","l","s","e","{">>

WhileHead == <<"w","h","i","l","e","(","a","<","1",")","{">>

RECURSIVE StmtsOfSize(_), StmtListsOfSize(_)

\* the texts of one statement holding n statements in all
StmtsOfSize(n) ==
    (IF n = 1 THEN SimpleStmts ELSE {})
    \cup {IfHead \o b \o <<"}">> : b \in StmtListsOfSize(n - 1)}
    \cup {WhileHead \o b \o <<"}">> : b \in StmtListsOfSize(n - 1)}
    \cup UNION {{IfHead \o b1 \o ElseHead \o b2 \o <<"}">> :
                    b1 \in StmtListsOfSize(i), b2 \in StmtListsOfSize(n - 1 - i)} :
                i \in 0..(n - 1)}

\* the texts of a statement list holding n statements in all
StmtListsOfSize(n) ==
    IF n = 0 THEN {<<>>}
    ELSE UNION {{st \o rest : st \in StmtsOfSize(k), rest \in StmtListsOfSize(n - k)} :
                k \in 1..n}

StatementPrograms ==
    UNION {{FunctionHead \o b \o <<"}">> : b \in StmtListsOfSize(n)} : n \in 0..MaxStmts}

RECURSIVE ExprsOfSize(_)

\* the texts of an expression with n operators, calls and parentheses
ExprsOfSize(n) ==
    IF n = 0 THEN {<<"a">>, <<"1">>}
    ELSE {<<"-">> \o e : e \in ExprsOfSize(n - 1)}
         \cup {<<"f", "(">> \o e \o <<")">> : e \in ExprsOfSize(n - 1)}
         \cup {<<"(">> \o e \o <<")">> : e \in ExprsOfSize(n - 1)}
         \cup UNION {{e1 \o op \o e2 : e1 \in ExprsOfSize(i),
                                       e2 \in ExprsOfSize(n - 1 - i),
                                       op \in {<<"+">>, <<"*">>}} :
                     i \in 0..(n - 1)}

ExpressionPrograms ==
    UNION {{FunctionHead \o <<"r","e","t","u","r","n"," ">> \o e \o <<";", "}">> :
               e \in ExprsOfSize(n)} : n \in 0..MaxExprOps}

\* two functions, the second named like the first or not
FunctionBodies == StmtListsOfSize(1) \cup {<<"r","e","t","u","r","n"," ","a","+","1",";">>, <<"r","e","t","u","r","n"," ","-","f","(","a","*","2",")",";">>}

TwoFunctionPrograms ==
    {FunctionHead \o b1 \o <<"}">> \o head \o b2 \o <<"}">> :
        b1 \in FunctionBodies, b2 \in FunctionBodies,
        head \in {FunctionHead, <<" ","i","n","t"," ","g","(","i","n","t"," ","a",")","{">>}}

\* declarations and redeclarations of parameters and variables
ParameterTexts == {<<>>, <<"i","n","t"," ","x">>, <<"i","n","t"," ","x",",","f","l","o","a","t"," ","x">>, <<"f","l","o","a","t"," ","y">>}

DeclStmts == {<<"i","n","t"," ","x",";">>, <<"f","l","o","a","t"," ","x","=","1",";">>, <<"i","n","t"," ","y","=","x",";">>, <<"i","f","(","t","r","u","e",")","{","f","l","o","a","t"," ","y",";","}">>}

DeclarationPrograms ==
    {<<"i","n","t"," ","f","(">> \o ps \o <<")", "{">> \o Flatten(body) \o <<"}">> :
        ps \in ParameterTexts, body \in SeqsUpTo(DeclStmts, MaxDecls)}

\* a program as words, and the words an edit puts in
BaseWords ==
    <<<<"i","n","t">>, <<"f">>, <<"(">>, <<"i","n","t">>, <<"a">>, <<")">>, <<"{">>,
      <<"i","f">>, <<"(">>, <<"a">>, <<"<">>, <<"1">>, <<")">>, <<"{">>, <<"f">>,
      <<"(">>, <<"a">>, <<")">>, <<";">>, <<"}">>, <<"e","l","s","e">>, <<"{">>, <<"}">>,
      <<"w","h","i","l","e">>, <<"(">>, <<"t","r","u","e">>, <<")">>, <<"{">>, <<"}">>,
      <<"i","n","t">>, <<"x">>, <<"=">>, <<"-">>, <<"a">>, <<"*">>, <<"2">>, <<";">>,
      <<"r","e","t","u","r","n">>, <<"x">>, <<";">>, <<"}">>>>

EditWords ==
    <<<<"i","n","t">>, <<"i","f">>, <<"e","l","s","e">>, <<"r","e","t","u","r","n">>,
      <<"t","r","u","e">>, <<"x">>, <<"1">>, <<"(">>, <<")">>, <<"{">>, <<"}">>, <<";">>,
      <<",">>, <<"=">>, <<"+">>, <<"<">>>>

RECURSIVE JoinWords(_)
JoinWords(ws) ==
    IF ws = <<>> THEN <<>> ELSE Head(ws) \o <<" ">> \o JoinWords(Tail(ws))

\* BaseWords with word i left out, and with word i replaced
EditedPrograms ==
    {JoinWords(SubSeq(BaseWords, 1, i - 1) \o SubSeq(BaseWords, i + 1, Len(BaseWords))) :
        i \in 1..Len(BaseWords)}
    \cup {JoinWords([BaseWords EXCEPT ![i] = EditWords[j]]) :
             i \in 1..Len(BaseWords), j \in 1..Len(EditWords)}

\* names that the generator's temporaries and Object.prototype also have
SpecialPrograms ==
    {<<"i","n","t"," ","f","(","i","n","t"," ","t","0",")","{"," ","r","e","t","u","r","n"," ","t","0","+","1",";"," ","}">>,
     <<"i","n","t"," ","f","(",")","{"," ","i","n","t"," ","t","0","=","1",";"," ","r","e","t","u","r","n"," ","t","0","*","2","+","t","0",";"," ","}">>,
     <<"i","n","t"," ","f","(",")","{"," ","i","n","t"," ","c","o","n","s","t","r","u","c","t","o","r",";"," ","i","n","t"," ","c","o","n","s","t","r","u","c","t","o","r",";"," ","i","n","t"," ","y",";"," ","}">>,
     <<"i","n","t"," ","f","(","i","n","t"," ","a",")","{"," ","i","f","(","a","<","1",")","{"," ","r","e","t","u","r","n"," ","a",";"," ","}"," ","r","e","t","u","r","n"," ","0",";"," ","}">>}

\* a statement on the line after an if without else, and the same statement
\* at the same line and column with the line of the if left empty
FollowStmts ==
    {<<"r","e","t","u","r","n"," ","0",";">>,
     <<"i","n","t"," ","x"," ","="," ","1",";">>,
     <<"f","(","a",")",";">>,
     <<"w","h","i","l","e","(","a","<","1",")","{","}">>}

AfterIf(stmt) == FunctionHead \o <<"\n">> \o IfHead \o <<"}", "\n">> \o stmt \o <<"}">>

Alone(stmt) == FunctionHead \o <<"\n", "\n">> \o stmt \o <<"}">>

IfFollowedPrograms == {AfterIf(stmt) : stmt \in FollowStmts}

\* a function declared twice, the second time under another signature and
\* with a fault in its body
RedeclaredFunctionPrograms ==
    {<<"i","n","t"," ","f","(","i","n","t"," ","a",")","{","r","e","t","u","r","n"," ","a",";","}"," ","f","l","o","a","t"," ","f","(",")","{","r","e","t","u","r","n"," ","y",";","}">>,
     <<"i","n","t"," ","f","(","i","n","t"," ","a",")","{","r","e","t","u","r","n"," ","a",";","}"," ","i","n","t"," ","f","(","i","n","t"," ","a",")","{","i","n","t"," ","b","=","c",";"," ","r","e","t","u","r","n"," ","a",";","}">>}

\* calls with a fault in an argument, in the arity or in the callee
CallPrograms ==
    {<<"i","n","t"," ","f","(","i","n","t"," ","a",")","{"," ","r","e","t","u","r","n"," ","f","(","y",","," ","1",")",";"," ","}">>,
     <<"i","n","t"," ","f","(","i","n","t"," ","a",")","{"," ","r","e","t","u","r","n"," ","g","(","y",")",";"," ","}">>,
     <<"i","n","t"," ","f","(","i","n","t"," ","a",")","{"," ","r","e","t","u","r","n"," ","a","(","y",")",";"," ","}">>,
     <<"i","n","t"," ","f","(","i","n","t"," ","a",")","{"," ","r","e","t","u","r","n"," ","f","(","y",")",";"," ","}">>,
     <<"i","n","t"," ","f","(","i","n","t"," ","a",")","{"," ","r","e","t","u","r","n"," ","f","(","t","r","u","e",")",";"," ","}">>,
     <<"f","l","o","a","t"," ","f","(","f","l","o","a","t"," ","a",")","{"," ","r","e","t","u","r","n"," ","f","(","1",")",";"," ","}">>,
     <<"i","n","t"," ","f","(","i","n","t"," ","a",")","{"," ","r","e","t","u","r","n"," ","f","(",")",";"," ","}">>}

\* operands of each type (u is declared nowhere) and the binary operators
Operands ==
    {[text |-> <<"1">>, type |-> "int"], [text |-> <<"1",".","5">>, type |-> "float"],
     [text |-> <<"t","r","u","e">>, type |-> "bool"], [text |-> <<"u">>, type |-> "unknown"]}

ArithmeticOps == {<<"+">>, <<"-">>, <<"*">>, <<"/">>}

EqualityOps == {<<"=","=">>, <<"!","=">>}

RelationalOps == {<<"<">>, <<">">>, <<"<","=">>, <<">","=">>}

LogicalOps == {<<"&","&">>, <<"|","|">>}

\* a function that returns the value of one binary expression
BinaryProgram(x, op, y) ==
    <<"b","o","o","l"," ","f","(",")","{"," ","r","e","t","u","r","n"," ">>
    \o x.text \o <<" ">> \o op \o <<" ">> \o y.text \o <<";"," ","}">>

BinaryPrograms ==
    {BinaryProgram(x, op, y) :
        x \in Operands, y \in Operands,
        op \in ArithmeticOps \cup EqualityOps \cup RelationalOps \cup LogicalOps}

\* a function of each return type and parameter type that initializes a
\* variable of each type with its parameter, passes the variable to itself
\* and returns it
TypeTexts ==
    {[text |-> <<"i","n","t">>, type |-> "int"], [text |-> <<"f","l","o","a","t">>, type |-> "float"],
     [text |-> <<"b","o","o","l">>, type |-> "bool"]}

TypedProgram(returned, parameter, variable) ==
    returned.text \o <<" ","f","(">> \o parameter.text \o <<" ","a",")","{"," ">>
    \o variable.text \o <<" ","x"," ","="," ","a",";"," ","f","(","x",")",";"," ","r","e","t","u","r","n"," ","x",";"," ","}">>

TypedPrograms ==
    {TypedProgram(returned, parameter, variable) :
        returned \in TypeTexts, parameter \in TypeTexts, variable \in TypeTexts}

\* the binary operators, as written and as tokens' values, with the level of
\* each in the chain of the grammar, 1 the loosest
BinaryOps ==
    {[text |-> <<"|","|">>, value |-> "||", level |-> 1],
     [text |-> <<"&","&">>, value |-> "&&", level |-> 2],
     [text |-> <<"=","=">>, value |-> "==", level |-> 3],
     [text |-> <<"!","=">>, value |-> "!=", level |-> 3],
     [text |-> <<"<">>, value |-> "<", level |-> 4],
     [text |-> <<">">>, value |-> ">", level |-> 4],
     [text |-> <<"<","=">>, value |-> "<=", level |-> 4],
     [text |-> <<">","=">>, value |-> ">=", level |-> 4],
     [text |-> <<"+">>, value |-> "+", level |-> 5],
     [text |-> <<"-">>, value |-> "-", level |-> 5],
     [text |-> <<"*">>, value |-> "*", level |-> 6],
     [text |-> <<"/">>, value |-> "/", level |-> 6]}

UnaryOps == {[text |-> <<"-">>, value |-> "-"], [text |-> <<"!">>, value |-> "!"]}

\* a function whose one statement is the expression
ExpressionProgram(text) == FunctionHead \o text \o <<";", "}">>

\* a o1 b o2 c, and the same with parentheses around either pair
Chain(o1, o2) == <<"a"," ">> \o o1.text \o <<" ","b"," ">> \o o2.text \o <<" ","c">>

LeftGrouped(o1, o2) == <<"(","a"," ">> \o o1.text \o <<" ","b",")"," ">> \o o2.text \o <<" ","c">>

RightGrouped(o1, o2) == <<"a"," ">> \o o1.text \o <<" ","(","b"," ">> \o o2.text \o <<" ","c",")">>

\* u a o b and a o u b, a unary operator on an operand of a binary one
UnaryLeft(u, o) == u.text \o <<"a"," ">> \o o.text \o <<" ","b">>

UnaryRight(u, o) == <<"a"," ">> \o o.text \o <<" ">> \o u.text \o <<"b">>

\* u f(a) and u u a
UnaryCall(u) == u.text \o <<"f","(","a",")">>

UnaryTwice(u) == u.text \o <<" ">> \o u.text \o <<"a">>

\* u f(a)(b), a call of the result of a call
CallChain(u) == u.text \o <<"f","(","a",")","(","b",")">>

PrecedencePrograms ==
    {ExpressionProgram(text) :
        text \in {Chain(o1, o2) : o1 \in BinaryOps, o2 \in BinaryOps}
                 \cup {LeftGrouped(o1, o2) : o1 \in BinaryOps, o2 \in BinaryOps}
                 \cup {RightGrouped(o1, o2) : o1 \in BinaryOps, o2 \in BinaryOps}
                 \cup {UnaryLeft(u, o) : u \in UnaryOps, o \in BinaryOps}
                 \cup {UnaryRight(u, o) : u \in UnaryOps, o \in BinaryOps}
                 \cup {UnaryCall(u) : u \in UnaryOps}
                 \cup {UnaryTwice(u) : u \in UnaryOps}
                 \cup {CallChain(u) : u \in UnaryOps}}

\* statements with one syntax error each: the terminator missing, the
\* variable name missing, an operand missing, a parenthesis missing
FaultyStmts ==
    {<<"i","n","t"," ","x"," ","="," ","1">>,
     <<"i","n","t"," ","="," ","2",";">>,
     <<"r","e","t","u","r","n"," ","1"," ","+",";">>,
     <<"f","(","a",";">>}

\* two statements, on lines 2 and 3 (Alone keeps its one on line 3)
Both(first, second) ==
    FunctionHead \o <<"\n">> \o first \o <<"\n">> \o second \o <<"}">>

RecoveryPrograms ==
    {Both(first, second) : first \in FaultyStmts, second \in FaultyStmts}
    \cup {Alone(stmt) : stmt \in FaultyStmts}

\* function names: a plain one, and one that every object inherits as a
\* property
CalleeNames ==
    {[text |-> <<"g">>, value |-> "g"],
     [text |-> <<"t","o","S","t","r","i","n","g">>, value |-> "toString"]}

Declared(name) == <<"i","n","t"," ">> \o name.text \o <<"(","i","n","t"," ","a",")","{"," ","r","e","t","u","r","n"," ","a",";"," ","}">>

Calling(name) == <<"i","n","t"," ","f","(","i","n","t"," ","a",")","{"," ">> \o name.text \o <<"(","a",")",";"," ","r","e","t","u","r","n"," ","a",";"," ","}">>

\* the call before the declaration, after it, and inside it
CallBefore(name) == Calling(name) \o <<" ">> \o Declared(name)

CallAfter(name) == Declared(name) \o <<" ">> \o Calling(name)

CallWithin(name) == <<"i","n","t"," ">> \o name.text \o <<"(","i","n","t"," ","a",")","{"," ">> \o name.text \o <<"(","a",")",";"," ","r","e","t","u","r","n"," ","a",";"," ","}">>

OrderPrograms ==
    UNION {{CallBefore(name), CallAfter(name), CallWithin(name)} : name \in CalleeNames}

UnitSources ==
    StatementPrograms \cup ExpressionPrograms \cup TwoFunctionPrograms
    \cup DeclarationPrograms \cup EditedPrograms \cup SpecialPrograms
    \cup IfFollowedPrograms \cup RedeclaredFunctionPrograms \cup CallPrograms
    \cup BinaryPrograms \cup TypedPrograms \cup PrecedencePrograms
    \cup RecoveryPrograms \cup OrderPrograms
    \cup {SrcReturnZero, SrcUndefinedReturn, SrcRedeclared, SrcLoop, sampleCode}

----------------------------------------------------------------------------
(* The four classes, driven as compile drives them, one method call per step *)

InitUnit ==
    /\ PageInit
    /\ lexer \in {NewLexicalAnalyzer(source) : source \in UnitSources}
    /\ lexResult = null
    /\ lexCalls = 0
    /\ parser = null
    /\ parseResult = null
    /\ analyzer = NewSemanticAnalyzer
    /\ semResult = null
    /\ codeGen = NewIntermediateCodeGenerator
    /\ genReturned = <<>>
    /\ otherRun = null

\* new Parser(lexResult.tokens).parse()
Parse ==
    /\ lexCalls = 1
    /\ parser = null
    /\ ParserGate(lexResult)
    /\ LET r == parse(NewParser(lexResult.tokens))
       IN  /\ parser' = r.p
           /\ parseResult' = ParseResult(r)
    /\ UNCHANGED <<lexer, lexResult, lexCalls, analyzer, semResult, codeGen, genReturned,
                   otherRun>>
    /\ UNCHANGED pageVars

\* semanticAnalyzer.analyze(parseResult.ast)
Analyze ==
    /\ parseResult # null
    /\ semResult = null
    /\ AnalyzerGate(parseResult)
    /\ analyzer' = analyze(analyzer, parseResult.ast)
    /\ semResult' = SemResult(analyzer')
    /\ UNCHANGED <<lexer, lexResult, lexCalls, parser, parseResult, codeGen, genReturned,
                   otherRun>>
    /\ UNCHANGED pageVars

\* codeGen.generate(parseResult.ast, semanticResult.symbolTable), on the same
\* generator instance each time
Generate ==
    /\ semResult # null
    /\ GeneratorGate(semResult)
    /\ Len(genReturned) < MaxGenerateCalls
    /\ codeGen' = generate(codeGen, parseResult.ast)
    /\ genReturned' = Append(genReturned, codeGen'.code)
    /\ UNCHANGED <<lexer, lexResult, lexCalls, parser, parseResult, analyzer, semResult,
                   otherRun>>
    /\ UNCHANGED pageVars

\* the same source through four new instances, as one compile runs them
Recompile ==
    /\ genReturned # <<>>
    /\ otherRun = null
    /\ LET lexR == LexResult(tokenize(NewLexicalAnalyzer(lexer.source)))
           parseR == ParseResult(parse(NewParser(lexR.tokens)))
           semR == SemResult(analyze(NewSemanticAnalyzer, parseR.ast))
       IN  otherRun' = [tokens |-> lexR.tokens, ast |-> parseR.ast,
                        code |-> generate(NewIntermediateCodeGenerator, parseR.ast).code]
    /\ UNCHANGED <<lexer, lexResult, lexCalls, parser, parseResult, analyzer, semResult,
                   codeGen, genReturned>>
    /\ UNCHANGED pageVars

NextUnit ==
    \/ Tokenize
    \/ Parse
    \/ Analyze
    \/ Generate
    \/ Recompile

SpecUnit == InitUnit /\ [][NextUnit]_vars

----------------------------------------------------------------------------
(* Claims *)

InvokedPhases == DOMAIN locals

\* C1: in compile each phase runs only if every earlier phase reported no
\* diagnostic: the parser only after a lexing without errors, the analyzer only
\* after a parse without errors that returned an AST, the generator only after
\* an analysis without errors; so no instructions are generated for a source
\* with a lexical, parse or semantic diagnostic.
C1_PhasesGated ==
    compiles > 0 =>
        /\ "lexResult" \in InvokedPhases
        /\ "parseResult" \in InvokedPhases => Len(locals.lexResult.errors) = 0
        /\ "semanticResult" \in InvokedPhases =>
              /\ "parseResult" \in InvokedPhases
              /\ Len(locals.parseResult.errors) = 0
              /\ locals.parseResult.ast # null
        /\ "tacCode" \in InvokedPhases =>
              /\ "semanticResult" \in InvokedPhases
              /\ Len(locals.lexResult.errors) = 0
              /\ Len(locals.parseResult.errors) = 0
              /\ Len(locals.semanticResult.errors) = 0

\* a compile that stopped at a semantic diagnostic
C1_Witness ==
    /\ compiles > 0
    /\ "semanticResult" \in InvokedPhases
    /\ Len(locals.semanticResult.errors) > 0
    /\ "tacCode" \notin InvokedPhases

\* C2: after any sequence of compiles the results held belong to the latest
\* compile only: what a skipped phase and every later phase would have set
\* (ast, parseErrors, symbolTable, semanticErrors, instructions) is empty or
\* absent.
C2_SkippedPhasesEmpty ==
    compiles > 0 =>
        /\ "parseResult" \notin InvokedPhases => ast = null /\ syntaxErrors = <<>>
        /\ "semanticResult" \notin InvokedPhases =>
              symbolTable = null /\ semanticErrors = <<>>
        /\ "tacCode" \notin InvokedPhases => intermediateCode = <<>>

\* C5: after compiling a program whose only fault is an undeclared identifier
\* used as the return value, the semantic diagnostics are exactly the one
\* "Undefined identifier" message and the instruction list is empty.
C5_OneUndefinedIdentifierDiagnostic ==
    /\ compiles = 1 /\ sourceCode = SrcUndefinedReturn =>
          /\ Len(semanticErrors) = 1
          /\ semanticErrors[1].message = "Undefined identifier: x"
          /\ intermediateCode = <<>>
    /\ compiles = 1 /\ sourceCode = SrcUndefinedReturnParam =>
          /\ Len(semanticErrors) = 1
          /\ semanticErrors[1].message = "Undefined identifier: y"
          /\ intermediateCode = <<>>

\* C4: tokenize on a fresh lexer returns, for every source text, a non-empty
\* token sequence with exactly one EOF token, which is its last element.
C4_OneEofLast ==
    lexCalls = 1 =>
        /\ Len(lexResult.tokens) > 0
        /\ lexResult.tokens[Len(lexResult.tokens)].type = "EOF"
        /\ Cardinality({i \in 1..Len(lexResult.tokens) :
                           lexResult.tokens[i].type = "EOF"}) = 1

\* a fresh lexer tokenized a text holding an invalid character after a token
C4_Witness ==
    /\ lexCalls = 1
    /\ Len(lexResult.errors) > 0
    /\ Len(lexResult.tokens) > 1

----------------------------------------------------------------------------
(* Reading an AST and an instruction list *)

RECURSIVE NodesOf(_), NodesOfEach(_, _)

\* the nodes of a tree, a node before its children, children left to right
NodesOf(node) ==
    <<node>> \o (IF HasChildren(node) THEN NodesOfEach(node.children, 1) ELSE <<>>)

NodesOfEach(children, i) ==
    IF i > Len(children) THEN <<>>
    ELSE NodesOf(children[i]) \o NodesOfEach(children, i + 1)

NodesOfType(tree, type) == SelectSeq(NodesOf(tree), LAMBDA n : n.type = type)

IfsWithElse(tree) ==
    SelectSeq(NodesOfType(tree, "IfStatement"), LAMBDA n : Len(n.children) > 2)

IfsWithoutElse(tree) ==
    SelectSeq(NodesOfType(tree, "IfStatement"), LAMBDA n : Len(n.children) = 2)

\* the positions of an instruction list that hold the instruction
PositionsOf(code, instruction) == {i \in 1..Len(code) : code[i] = instruction}

\* the texts an instruction can name as a value: temporaries and what the
\* tree's identifiers and literals are written as
TempNames(code) == {"t" \o NumText(i) : i \in 0..Len(code)}

LabelNames(code) == {"L" \o NumText(i) : i \in 0..Len(code)}

ValueNames(tree, code) ==
    TempNames(code)
    \cup {n.value : n \in {m \in Range(NodesOf(tree)) : "value" \in DOMAIN m}}

\* the positions of the instructions that jump to the label
JumpsTo(tree, code, label) ==
    PositionsOf(code, "GOTO " \o label)
    \cup UNION {PositionsOf(code, "IF_FALSE " \o v \o " GOTO " \o label) :
                   v \in ValueNames(tree, code)}

JumpTargets(tree, code) == {l \in LabelNames(code) : JumpsTo(tree, code, l) # {}}

AllJumps(tree, code) == UNION {JumpsTo(tree, code, l) : l \in LabelNames(code)}

FunctionNames(tree) == {n.value : n \in Range(NodesOfType(tree, "FunctionDeclaration"))}

\* C3: in what generate returns for an AST that passed the earlier phases,
\* the FUNCTION <name>: instructions are as many as the END_FUNCTION <name>
\* instructions, one of each per function, and every label some GOTO or
\* IF_FALSE ... GOTO jumps to is defined by exactly one <label>: instruction,
\* however if, if/else and while are nested.
C3_FunctionsBalancedLabelsDefinedOnce ==
    \A k \in 1..Len(genReturned) :
        LET code == genReturned[k]
            tree == parseResult.ast
        IN  /\ \A name \in FunctionNames(tree) :
                  /\ Cardinality(PositionsOf(code, "FUNCTION " \o name \o ":")) = 1
                  /\ Cardinality(PositionsOf(code, "END_FUNCTION " \o name)) = 1
            /\ Cardinality(AllJumps(tree, code))
                  = 2 * Len(NodesOfType(tree, "WhileStatement"))
                    + 2 * Len(IfsWithElse(tree)) + Len(IfsWithoutElse(tree))
            /\ \A label \in JumpTargets(tree, code) :
                  Cardinality(PositionsOf(code, label \o ":")) = 1

\* instructions generated for a while inside an if with an else
C3_Witness ==
    /\ genReturned # <<>>
    /\ \E n \in Range(IfsWithElse(parseResult.ast)) :
           Len(NodesOfType(n, "WhileStatement")) > 0
    /\ Cardinality(JumpTargets(parseResult.ast, genReturned[1])) >= 4

\* the parameter and variable declarations of a function, in the order the
\* analyzer meets them
DeclarationsOf(function) ==
    SelectSeq(NodesOf(function), LAMBDA n : n.type \in {"Parameter", "VariableDeclaration"})

\* the index of the first declaration of the name that declaration j declares
FirstDeclaration(decls, j) ==
    CHOOSE i \in 1..j :
        /\ decls[i].value = decls[j].value
        /\ \A h \in 1..(i - 1) : decls[h].value # decls[j].value

RedeclarationMessage(decl) ==
    IF decl.type = "Parameter"
    THEN "Parameter '" \o decl.value \o "' already declared"
    ELSE "Variable '" \o decl.value \o "' already declared in this scope"

\* the functions of a program that are the first of their name, the name
\* not one that the global scope holds before any declaration
FirstFunctions(tree) ==
    {tree.children[i] : i \in {j \in 1..Len(tree.children) :
        /\ tree.children[j].value \notin ObjectPrototypeKeys
        /\ \A h \in 1..(j - 1) : tree.children[h].value # tree.children[j].value}}

LabelDefinitions(code) == UNION {PositionsOf(code, l \o ":") : l \in LabelNames(code)}

\* C7: generate allocates one label for an if without else and two for an if
\* with else, so the label counter ends at one per if without else plus two
\* per if with else and per while, and the output holds as many <label>:
\* instructions.
C7_OneLabelPerIfWithoutElse ==
    genReturned # <<>> =>
        LET tree == parseResult.ast
            labels == Len(IfsWithoutElse(tree)) + 2 * Len(IfsWithElse(tree))
                      + 2 * Len(NodesOfType(tree, "WhileStatement"))
        IN  /\ codeGen.labelCounter = labels
            /\ Cardinality(LabelDefinitions(genReturned[Len(genReturned)])) = labels

\* the temporaries a tree's expressions need
NumTemps(tree) ==
    Len(NodesOfType(tree, "BinaryExpression")) + Len(NodesOfType(tree, "UnaryExpression"))
    + Len(NodesOfType(tree, "CallExpression"))

\* C9: the same source through independent instances of the four classes,
\* and generate called again on the same generator, give the same tokens,
\* AST and instructions; every generate starts its temporaries and labels at
\* 0, and neither a counter nor an instruction carries over from a call before.
C9_Idempotent ==
    /\ \A k \in 1..Len(genReturned) : genReturned[k] = genReturned[1]
    /\ genReturned # <<>> =>
          /\ codeGen.code = genReturned[1]
          /\ codeGen.tempCounter = NumTemps(parseResult.ast)
          /\ codeGen.labelCounter
                = 2 * (Len(NodesOfType(parseResult.ast, "IfStatement"))
                       + Len(NodesOfType(parseResult.ast, "WhileStatement")))
    /\ otherRun # null =>
          /\ otherRun.tokens = lexResult.tokens
          /\ otherRun.ast = parseResult.ast
          /\ otherRun.code = genReturned[1]

\* generate called twice on one generator and the source compiled again, for
\* a program that needs temporaries and labels
C9_Witness ==
    /\ Len(genReturned) >= 2
    /\ otherRun # null
    /\ codeGen.tempCounter > 1
    /\ codeGen.labelCounter > 0

ExpressionTypes ==
    {"BinaryExpression", "UnaryExpression", "CallExpression", "Identifier",
     "IntegerLiteral", "FloatLiteral", "BooleanLiteral"}

ChildTypes(node) ==
    IF HasChildren(node) THEN [i \in 1..Len(node.children) |-> node.children[i].type]
    ELSE <<>>

AllExpressions(types) == \A i \in 1..Len(types) : types[i] \in ExpressionTypes

\* the children a node of each kind is required to have
RequiredChildren(node) ==
    LET types == ChildTypes(node)
    IN  CASE node.type = "Program" ->
                \A i \in 1..Len(types) : types[i] = "FunctionDeclaration"
          [] node.type = "FunctionDeclaration" -> types = <<"ParameterList", "Block">>
          [] node.type = "IfStatement" ->
                /\ Len(types) \in {2, 3}
                /\ types[1] \in ExpressionTypes
                /\ \A i \in 2..Len(types) : types[i] = "Block"
          [] node.type = "WhileStatement" ->
                /\ Len(types) = 2
                /\ types[1] \in ExpressionTypes
                /\ types[2] = "Block"
          [] node.type \in {"ReturnStatement", "VariableDeclaration"} ->
                Len(types) <= 1 /\ AllExpressions(types)
          [] node.type \in {"ExpressionStatement", "UnaryExpression"} ->
                Len(types) = 1 /\ AllExpressions(types)
          [] node.type = "BinaryExpression" -> Len(types) = 2 /\ AllExpressions(types)
          [] node.type = "CallExpression" -> Len(types) >= 1 /\ AllExpressions(types)
          [] OTHER -> TRUE

\* C10: when parse returns an AST and no diagnostic, every node has the
\* children its kind requires, in their order.
C10_RequiredChildren ==
    (parseResult # null /\ parseResult.ast # null /\ parseResult.errors = <<>>) =>
        \A n \in Range(NodesOf(parseResult.ast)) : RequiredChildren(n)

\* a parse without diagnostics of a program with an if/else, a while, a call
\* with an argument and a declaration with an initializer
C10_Witness ==
    /\ parseResult # null /\ parseResult.ast # null /\ parseResult.errors = <<>>
    /\ Len(IfsWithElse(parseResult.ast)) > 0
    /\ Len(NodesOfType(parseResult.ast, "WhileStatement")) > 0
    /\ \E n \in Range(NodesOfType(parseResult.ast, "CallExpression")) : Len(n.children) > 1
    /\ \E n \in Range(NodesOfType(parseResult.ast, "VariableDeclaration")) :
           Len(n.children) = 1

\* the names generate can give the temporaries of a tree, and one more
ExprTemps(tree) == {"t" \o NumText(i) : i \in 0..NumTemps(tree)}

\* what an instruction can name as an operand
OperandNames(tree) ==
    ExprTemps(tree) \cup {n.value : n \in {m \in Range(NodesOf(tree)) : "value" \in DOMAIN m}}

OperatorsOf(tree) ==
    {n.value : n \in Range(NodesOfType(tree, "BinaryExpression"))
                     \cup Range(NodesOfType(tree, "UnaryExpression"))}

\* the right-hand sides an assignment can have, and those that use the name
RightSides(tree, code) ==
    LET names == OperandNames(tree)
    IN  names
        \cup {l \o " " \o op \o " " \o r : l \in names, r \in names, op \in OperatorsOf(tree)}
        \cup {op \o v : op \in OperatorsOf(tree), v \in names}
        \cup {"CALL " \o f \o ", " \o NumText(n) : f \in names, n \in 0..Len(code)}

RightSidesUsing(tree, name) ==
    LET names == OperandNames(tree)
    IN  {name}
        \cup {name \o " " \o op \o " " \o r : r \in names, op \in OperatorsOf(tree)}
        \cup {l \o " " \o op \o " " \o name : l \in names, op \in OperatorsOf(tree)}
        \cup {op \o name : op \in OperatorsOf(tree)}

\* instruction i assigns the name
Assigns(tree, code, i, name) ==
    code[i] \in {name \o " = " \o rhs : rhs \in RightSides(tree, code)}

\* instruction i uses the name as an operand, a PARAM or a RETURN value
Uses(tree, code, i, name) ==
    \/ code[i] \in {"PARAM " \o name, "RETURN " \o name}
    \/ code[i] \in {"IF_FALSE " \o name \o " GOTO " \o l : l \in LabelNames(code)}
    \/ code[i] \in {lhs \o " = " \o rhs : lhs \in OperandNames(tree),
                                          rhs \in RightSidesUsing(tree, name)}

\* the instructions that assign a temporary
TempAssignments(tree, code) ==
    {i \in 1..Len(code) : \E t \in ExprTemps(tree) : Assigns(tree, code, i, t)}

\* C8: in one generate every binary, unary and call expression gets a
\* temporary of its own: the temporaries assigned are t0, t1, t2, ... in the
\* order of the instructions, none twice and none left out, through all the
\* functions of the program, and a temporary that an instruction uses is
\* assigned by an earlier instruction.
C8_TemporariesFresh ==
    genReturned # <<>> =>
        LET tree == parseResult.ast
            code == genReturned[1]
            assignments == TempAssignments(tree, code)
        IN  /\ Cardinality(assignments) = NumTemps(tree)
            /\ \A i \in assignments :
                   Assigns(tree, code, i,
                           "t" \o NumText(Cardinality({j \in assignments : j < i})))
            /\ \A i \in 1..Len(code) : \A t \in ExprTemps(tree) :
                   Uses(tree, code, i, t) =>
                       \E j \in 1..(i - 1) : Assigns(tree, code, j, t)

\* the diagnostics of the phases that have run, lexical, parse and semantic
Diagnostics ==
    (IF lexResult # null THEN lexResult.errors ELSE <<>>)
    \o (IF parseResult # null THEN parseResult.errors ELSE <<>>)
    \o (IF semResult # null THEN semResult.errors ELSE <<>>)

\* C11: every lexical, parse and semantic diagnostic of a source text carries
\* a source position, a line >= 1 and a column >= 1, whatever construct it is
\* attached to (a return statement, a condition, a call).
C11_DiagnosticsPositioned ==
    \A i \in 1..Len(Diagnostics) :
        Diagnostics[i].line >= 1 /\ Diagnostics[i].column >= 1

\* what parse returns for a source text given to new instances
ParseOf(source) ==
    ParseResult(parse(NewParser(LexResult(tokenize(NewLexicalAnalyzer(source))).tokens)))

\* the statements of the body of function i of a program
BodyOf(tree, i) == tree.children[i].children[2].children

\* C12: a statement that follows an if without else is parsed by its own
\* leading keyword into the node it yields without the if before it: the
\* body's statements are the if and that node, in source order, none of its
\* tokens is consumed by the if and no diagnostic is reported.
C12_StatementAfterIfParsedAlone ==
    parseResult # null =>
        \A stmt \in FollowStmts :
            lexer.source = AfterIf(stmt) =>
                /\ parseResult.errors = <<>>
                /\ Len(BodyOf(parseResult.ast, 1)) = 2
                /\ BodyOf(parseResult.ast, 1)[1].type = "IfStatement"
                /\ <<BodyOf(parseResult.ast, 1)[2]>> = BodyOf(ParseOf(Alone(stmt)).ast, 1)

\* the identifiers of a tree read as values (not the callee of a call)
ValueIdentifiers(tree) ==
    {n \in Range(NodesOfType(tree, "Identifier")) :
        \A call \in Range(NodesOfType(tree, "CallExpression")) : call.children[1] # n}

\* the names a function declares, as parameters and variables
DeclaredNames(function) == {DeclarationsOf(function)[i].value :
                               i \in 1..Len(DeclarationsOf(function))}

\* C13: when a function name is declared again at global scope, analyze
\* reports one redeclaration diagnostic at the duplicate, the global symbol
\* keeps the return type and parameters of the first declaration, and the
\* duplicate's body is analyzed all the same: an identifier it reads that
\* nothing declares is reported as undefined.
C13_DuplicateFunctionBodyAnalyzed ==
    semResult # null =>
        LET functions == parseResult.ast.children
        IN  \A j \in 1..Len(functions) : \A i \in 1..(j - 1) :
                (/\ functions[i].value = functions[j].value
                 /\ \A h \in 1..(i - 1) : functions[h].value # functions[j].value) =>
                    LET first == functions[i]
                        duplicate == functions[j]
                        symbol == GlobalScope(analyzer).symbols[first.value]
                        parameters == first.children[1].children
                    IN  /\ Cardinality({e \in 1..Len(semResult.errors) :
                              semResult.errors[e]
                                  = [message |-> "Function '" \o duplicate.value
                                                 \o "' already declared",
                                     line |-> duplicate.line,
                                     column |-> duplicate.column]}) = 1
                        /\ symbol.returnType = first.dataType
                        /\ Len(symbol.parameters) = Len(parameters)
                        /\ \A k \in 1..Len(parameters) :
                               /\ symbol.parameters[k].name = parameters[k].value
                               /\ symbol.parameters[k].type = parameters[k].dataType
                        /\ \A n \in ValueIdentifiers(duplicate) :
                               n.value \notin DeclaredNames(duplicate)
                                              \cup FunctionNames(parseResult.ast)
                                              \cup ObjectPrototypeKeys =>
                                   \E e \in 1..Len(semResult.errors) :
                                       semResult.errors[e]
                                           = [message |-> "Undefined identifier: "
                                                          \o n.value,
                                              line |-> n.line, column |-> n.column]

\* compatible(expected, actual) as the specification defines it
Compatible(expected, actual) ==
    expected = actual \/ (expected = "float" /\ actual = "int")

LiteralTypes ==
    [IntegerLiteral |-> "int", FloatLiteral |-> "float", BooleanLiteral |-> "bool"]

\* the diagnostics of an analysis that are the one given
ErrorsEqual(errors, message, node) ==
    {e \in 1..Len(errors) :
        errors[e] = [message |-> message, line |-> node.line, column |-> node.column]}

\* the arguments of a call
ArgumentsOf(call) == SubSeq(call.children, 2, Len(call.children))

\* C14: every argument of a call is analyzed, whatever the callee and the
\* arity: an identifier an argument reads that nothing declares is reported
\* as undefined; a call of the enclosing function with another number of
\* arguments adds exactly one arity diagnostic; with the same number, a
\* literal argument i is reported if and only if its type is not compatible
\* with the declared type of parameter i.
C14_ArgumentsAnalyzed ==
    semResult # null =>
        \A function \in FirstFunctions(parseResult.ast) :
            \A call \in Range(NodesOfType(function, "CallExpression")) :
                LET args == ArgumentsOf(call)
                    callee == call.children[1]
                    parameters == function.children[1].children
                IN  /\ \A i \in 1..Len(args) : \A n \in ValueIdentifiers(args[i]) :
                           n.value \notin DeclaredNames(function)
                                          \cup FunctionNames(parseResult.ast)
                                          \cup ObjectPrototypeKeys =>
                               ErrorsEqual(semResult.errors,
                                           "Undefined identifier: " \o n.value, n) # {}
                    /\ (/\ callee.type = "Identifier"
                        /\ callee.value = function.value
                        /\ callee.value \notin DeclaredNames(function)) =>
                           IF Len(args) # Len(parameters)
                           THEN Cardinality(ErrorsEqual(semResult.errors,
                                    "Function '" \o callee.value \o "' expects "
                                    \o NumText(Len(parameters)) \o " arguments, got "
                                    \o NumText(Len(args)), call)) = 1
                           ELSE \A i \in 1..Len(args) :
                                    args[i].type \in DOMAIN LiteralTypes =>
                                        (ErrorsEqual(semResult.errors,
                                             "Argument " \o NumText(i) \o " to '"
                                             \o callee.value \o "' must be "
                                             \o parameters[i].dataType \o ", got "
                                             \o LiteralTypes[args[i].type], args[i]) = {}
                                         <=> Compatible(parameters[i].dataType,
                                                        LiteralTypes[args[i].type]))

Messages(errors) == [i \in 1..Len(errors) |-> errors[i].message]

\* the diagnostics of the analysis of a BinaryProgram other than those of its
\* operands: the one of the binary expression, and the one of the return
\* statement, which names the type of the expression when it is not bool
BinaryMessages ==
    SelectSeq(Messages(semResult.errors), LAMBDA m : m # "Undefined identifier: u")

ReturnedNot(type) == "Function must return bool, got " \o type

Got(x, y) == ", got " \o x.type \o " and " \o y.type

\* C15: for == and !=, no diagnostic is reported if and only if the operand
\* types are compatible in one direction or the other, so an int and a float
\* compare in either order, and the type of the comparison is bool in every
\* case.
C15_EqualityEitherDirection ==
    semResult # null =>
        \A x \in Operands, y \in Operands, op \in EqualityOps :
            lexer.source = BinaryProgram(x, op, y) =>
                IF Compatible(x.type, y.type) \/ Compatible(y.type, x.type)
                THEN BinaryMessages = <<>>
                ELSE BinaryMessages = <<"Comparison requires compatible types" \o Got(x, y)>>

Numeric(type) == type \in {"int", "float"}

\* C16: an arithmetic operator reports no diagnostic if and only if both
\* operands are int or float, and then has type float if either is float and
\* int if not; a relational one, if and only if both are numeric, and a
\* logical one, if and only if both are bool, each with type bool; a violated
\* precondition gives exactly one diagnostic for the node and the operator's
\* nominal type all the same, a numeric type for arithmetic and bool for the
\* others.
C16_BinaryOperatorTypes ==
    semResult # null =>
        \A x \in Operands, y \in Operands :
            /\ \A op \in ArithmeticOps :
                   lexer.source = BinaryProgram(x, op, y) =>
                       IF Numeric(x.type) /\ Numeric(y.type)
                       THEN BinaryMessages
                                = <<ReturnedNot(IF "float" \in {x.type, y.type}
                                                THEN "float" ELSE "int")>>
                       ELSE /\ Len(BinaryMessages) = 2
                            /\ BinaryMessages[1]
                                  = "Arithmetic operation requires numeric types" \o Got(x, y)
                            /\ BinaryMessages[2] \in {ReturnedNot("int"), ReturnedNot("float")}
            /\ \A op \in RelationalOps :
                   lexer.source = BinaryProgram(x, op, y) =>
                       IF Numeric(x.type) /\ Numeric(y.type)
                       THEN BinaryMessages = <<>>
                       ELSE BinaryMessages
                                = <<"Comparison requires numeric types" \o Got(x, y)>>
            /\ \A op \in LogicalOps :
                   lexer.source = BinaryProgram(x, op, y) =>
                       IF x.type = "bool" /\ y.type = "bool"
                       THEN BinaryMessages = <<>>
                       ELSE BinaryMessages
                                = <<"Logical operation requires boolean types" \o Got(x, y)>>

TypeNames == {"int", "float", "bool"}

\* the keyword tokens a tree accounts for: the type of each function,
\* parameter and variable declaration, the if (and else), while and return of
\* each statement, and each true or false
KeywordsOf(tree) ==
    Len(NodesOfType(tree, "FunctionDeclaration")) + Len(NodesOfType(tree, "Parameter"))
    + Len(NodesOfType(tree, "VariableDeclaration")) + Len(NodesOfType(tree, "IfStatement"))
    + Len(IfsWithElse(tree)) + Len(NodesOfType(tree, "WhileStatement"))
    + Len(NodesOfType(tree, "ReturnStatement")) + Len(NodesOfType(tree, "BooleanLiteral"))

KeywordTokens(toks) == {i \in 1..Len(toks) : toks[i].type = "KEYWORD"}

\* C17: when parse reports no diagnostic the tokens are a sentence of the
\* grammar: the type of every function and parameter is int, float or bool,
\* and every keyword token is one the tree accounts for, none consumed in an
\* expression or anywhere else without a node of its own.
C17_AcceptedIsSentence ==
    (parseResult # null /\ parseResult.errors = <<>>) =>
        /\ \A n \in Range(NodesOfType(parseResult.ast, "FunctionDeclaration"))
                    \cup Range(NodesOfType(parseResult.ast, "Parameter")) :
               n.dataType \in TypeNames
        /\ Cardinality(KeywordTokens(lexResult.tokens)) = KeywordsOf(parseResult.ast)

\* the diagnostic, if the condition does not hold
Unless(condition, message) == IF condition THEN <<>> ELSE <<message>>

\* C18: a variable initializer, an argument of a call with the declared
\* number of arguments and a return value are accepted exactly when
\* compatible(expected, actual) holds, which it does
\* if and only if the types are equal or expected is float and actual is int;
\* each mismatch gives a diagnostic of its own and the walk goes on to the
\* next check.
C18_CompatibleChecks ==
    semResult # null =>
        \A returned \in TypeTexts, parameter \in TypeTexts, variable \in TypeTexts :
            lexer.source = TypedProgram(returned, parameter, variable) =>
                Messages(semResult.errors)
                    = Unless(Compatible(variable.type, parameter.type),
                             "Cannot assign " \o parameter.type \o " to " \o variable.type)
                      \o Unless(Compatible(parameter.type, variable.type),
                                "Argument 1 to 'f' must be " \o parameter.type
                                \o ", got " \o variable.type)
                      \o Unless(Compatible(returned.type, variable.type),
                                "Function must return " \o returned.type
                                \o ", got " \o variable.type)

\* an analysis that accepted an int as the initializer of a float and
\* rejected the float as an int argument and as an int return value
C18_Witness ==
    /\ semResult # null
    /\ \E int \in TypeTexts, float \in TypeTexts :
           /\ int.type = "int"
           /\ float.type = "float"
           /\ lexer.source = TypedProgram(int, int, float)
    /\ Len(semResult.errors) = 2

RECURSIVE Shape(_), ShapeEach(_, _)

\* an expression without its positions: <<operator, operands>> for a binary
\* and a unary one, <<"call", callee, arguments>> for a call and <<value>>
\* for an identifier or a literal
Shape(node) ==
    IF node.type \in {"BinaryExpression", "UnaryExpression"}
    THEN <<node.value>> \o ShapeEach(node.children, 1)
    ELSE IF node.type = "CallExpression" THEN <<"call">> \o ShapeEach(node.children, 1)
    ELSE <<node.value>>

ShapeEach(children, i) ==
    IF i > Len(children) THEN <<>>
    ELSE <<Shape(children[i])>> \o ShapeEach(children, i + 1)

\* the expression of the one statement of an ExpressionProgram
ParsedExpression == BodyOf(parseResult.ast, 1)[1].children[1]

\* the tree of each kind of text
Grouped(op, left, right) == <<op.value, left, right>>

ChainShape(o1, o2) ==
    IF o2.level > o1.level
    THEN Grouped(o1, <<"a">>, Grouped(o2, <<"b">>, <<"c">>))
    ELSE Grouped(o2, Grouped(o1, <<"a">>, <<"b">>), <<"c">>)

\* the source parsed without a diagnostic into the tree
ParsedAs(text, shape) ==
    lexer.source = ExpressionProgram(text) =>
        parseResult.errors = <<>> /\ Shape(ParsedExpression) = shape

\* C19: parseExpression builds the tree the precedence chain dictates,
\* logical-or loosest, then logical-and, equality, relational, additive,
\* multiplicative, unary, call and primary: of two binary operators in a row
\* the second takes the middle operand only if its level is tighter, so that
\* every level is left-associative; parentheses group as written; a unary
\* operator takes a call or a primary, before any binary operator does.
C19_PrecedenceAndAssociativity ==
    parseResult # null =>
        /\ \A o1 \in BinaryOps, o2 \in BinaryOps :
               /\ ParsedAs(Chain(o1, o2), ChainShape(o1, o2))
               /\ ParsedAs(LeftGrouped(o1, o2),
                           Grouped(o2, Grouped(o1, <<"a">>, <<"b">>), <<"c">>))
               /\ ParsedAs(RightGrouped(o1, o2),
                           Grouped(o1, <<"a">>, Grouped(o2, <<"b">>, <<"c">>)))
        /\ \A u \in UnaryOps :
               /\ \A o \in BinaryOps :
                      /\ ParsedAs(UnaryLeft(u, o),
                                  Grouped(o, <<u.value, <<"a">>>>, <<"b">>))
                      /\ ParsedAs(UnaryRight(u, o),
                                  Grouped(o, <<"a">>, <<u.value, <<"b">>>>))
               /\ ParsedAs(UnaryCall(u), <<u.value, <<"call", <<"f">>, <<"a">>>>>>)
               /\ ParsedAs(UnaryTwice(u), <<u.value, <<u.value, <<"a">>>>>>)
               /\ ParsedAs(CallChain(u),
                           <<u.value, <<"call", <<"call", <<"f">>, <<"a">>>>, <<"b">>>>>>)

\* a - b * c parsed, and a - b - c
C19_Witness ==
    /\ parseResult # null
    /\ parseResult.errors = <<>>
    /\ \E o1 \in BinaryOps, o2 \in BinaryOps :
           /\ o1.value = "-"
           /\ lexer.source = ExpressionProgram(Chain(o1, o2))
           /\ \/ o2.value = "*" /\ Shape(ParsedExpression)[1] = "-"
              \/ o2.value = "-" /\ Shape(ParsedExpression)[2] = <<"-", <<"a">>, <<"b">>>>

\* parse returned a result: a Program node, with the diagnostics beside it
ParseReturns == parseResult # null => parseResult.ast.type = "Program"

\* a recovery begun at any token of the input: synchronize moves at least
\* one token on unless the input is at its end, and stops after a ";", before
\* a keyword that begins a statement or a function, or at the end
RecoveryAdvances ==
    parser # null =>
        \A i \in 0..Len(parser.tokens) :
            LET from == [parser EXCEPT !.position = i]
                to == synchronize(from)
            IN  /\ Par_isAtEnd(from) => to.position = i
                /\ ~Par_isAtEnd(from) => to.position > i
                /\ \/ Par_isAtEnd(to)
                   \/ Par_previous(to).type = "SEMICOLON"
                   \/ Par_peek(to).type = "KEYWORD" /\ Par_peek(to).value \in SyncKeywords

\* of two faulty statements in a row, the error of the second is reported
\* where it is reported when the statement stands alone
LaterErrorsReported ==
    parseResult # null =>
        \A first \in FaultyStmts, second \in FaultyStmts :
            lexer.source = Both(first, second) =>
                LET alone == ParseOf(Alone(second)).errors[1]
                IN  \E e \in Range(parseResult.errors) :
                        e.line = alone.line /\ e.column = alone.column

\* C20: parse returns a result for every token sequence and never throws;
\* each recovery advances at least one token unless the input is at its
\* end and stops just after a ";" or just before one of int, float, bool,
\* if, while, return, so that a later, independent syntax error is still
\* reported.
C20_ParseRecovers == ParseReturns /\ RecoveryAdvances /\ LaterErrorsReported

----------------------------------------------------------------------------
(* Positions in a source text, characters counted from 0 *)

WhitespaceChars == {" ", "\t", "\r", "\n"}

\* the newlines before character j
NewlinesBefore(source, j) == {i \in 1..j : source[i] = "\n"}

\* 1 at the start, one more after each newline
LineAt(source, j) == 1 + Cardinality(NewlinesBefore(source, j))

\* 1 at the start and after a newline, one more after every other character
ColumnAt(source, j) ==
    LET newlines == NewlinesBefore(source, j)
        last == IF newlines = {} THEN 0
                ELSE CHOOSE i \in newlines : \A k \in newlines : k <= i
    IN  j - last + 1

\* the stretches [j, k) of the source that spell the token at the line and
\* column it records
LexemesOf(source, token) ==
    {jk \in (0..Len(source)) \X (0..Len(source)) :
        /\ jk[1] < jk[2]
        /\ Substring(source, jk[1], jk[2]) = token.value
        /\ token.line = LineAt(source, jk[1])
        /\ token.column = ColumnAt(source, jk[1])}

\* the characters some token spells
Spelled(source, toks) ==
    UNION {jk[1]..(jk[2] - 1) : jk \in UNION {LexemesOf(source, toks[n]) :
                                                 n \in {m \in 1..Len(toks) :
                                                           toks[m].type # "EOF"}}}

\* the first character at or after position that is not whitespace (the
\* length of the source when there is none)
FirstNonWhite(source, position) ==
    CHOOSE j \in position..Len(source) :
        /\ j = Len(source) \/ source[j + 1] \notin WhitespaceChars
        /\ \A i \in position..(j - 1) : source[i + 1] \in WhitespaceChars

\* a character no token begins with, or "&" or "|" not doubled
Unsupported(source, j) ==
    LET char == source[j + 1]
    IN  \/ char \notin LowerLetters \cup UpperLetters \cup DigitChars \cup {"_"}
                       \cup {"+", "-", "*", "/", "=", "!", "<", ">", "&", "|"}
                       \cup {"(", ")", "{", "}", ";", ","}
        \/ /\ char \in {"&", "|"}
           /\ ~(j + 1 < Len(source) /\ source[j + 2] = char)

\* one iteration of the scan loop
IterationAdvances ==
    (lexResult = null /\ lexer.position < Len(lexer.source)) =>
        LET at == FirstNonWhite(lexer.source, lexer.position)
        IN  /\ lexer'.position > lexer.position
            /\ IF at < Len(lexer.source) /\ Unsupported(lexer.source, at)
               THEN /\ Len(lexer'.errors) = Len(lexer.errors) + 1
                    /\ lexer'.position = at + 1
                    /\ lexer'.tokens = lexer.tokens
               ELSE lexer'.errors = lexer.errors

\* every character of a name, a number, a delimiter or an operator is in a
\* token, whatever stands before it, and one error stands for each character
\* outside the tokens
TokensProduced ==
    lexResult # null =>
        LET source == lexer.source
            spelled == Spelled(source, lexResult.tokens)
            others == {j \in 0..(Len(source) - 1) : source[j + 1] \notin WhitespaceChars}
                          \ spelled
        IN  /\ \A j \in others : source[j + 1] \in {".", "&", "|", "@"}
            /\ Len(lexResult.errors) = Cardinality(others)

\* C21: tokenize terminates on every source: every iteration of the scan
\* loop advances the position by at least one character; at an unrecognized
\* character or an unsupported operator character it records exactly one
\* lexical error and advances exactly one position; the tokens after an
\* invalid character are still produced; the call returns.
C21_ScanTerminates == [][IterationAdvances]_vars /\ []TokensProduced /\ <>(lexResult # null)

\* tokenize returned with an error recorded and a token after it
C21_Witness ==
    /\ lexResult # null
    /\ \E e \in Range(lexResult.errors) : \E t \in Range(lexResult.tokens) :
           t.type # "EOF" /\ t.line = e.line /\ t.column > e.column

\* the character a token's line and column name
StartOf(source, token) ==
    CHOOSE j \in 0..Len(source) : \E k \in 0..Len(source) : <<j, k>> \in LexemesOf(source, token)

\* C22: every token other than EOF records the line and the column of the
\* first character of its lexeme, the line 1 at the start and one more after
\* each newline, the column 1 at the start and after a newline and one more
\* after every other character, a space, a tab and a carriage return
\* included; the tokens stand in the order of their lexemes.
C22_TokensPositioned ==
    lexResult # null =>
        LET source == lexer.source
            toks == SelectSeq(lexResult.tokens, LAMBDA t : t.type # "EOF")
        IN  /\ \A n \in 1..Len(toks) : LexemesOf(source, toks[n]) # {}
            /\ \A n \in 1..(Len(toks) - 1) :
                   StartOf(source, toks[n]) < StartOf(source, toks[n + 1])

\* a token on the second line, after a blank character there
C22_Witness ==
    /\ lexResult # null
    /\ \E t \in Range(lexResult.tokens) : t.type # "EOF" /\ t.line = 2 /\ t.column = 2

\* the errors that report an unrecognized character of the source
InvalidCharacterErrors(source, errors) ==
    {e \in Range(errors) :
        \E j \in 0..(Len(source) - 1) : e.message = "Invalid character: " \o source[j + 1]}

\* the characters an error can be about when its column is the character's
\* column and shift more
OffendersOf(source, e, shift) ==
    {j \in 0..(Len(source) - 1) :
        /\ e.message = "Invalid character: " \o source[j + 1]
        /\ e.line = LineAt(source, j)
        /\ e.column = ColumnAt(source, j) + shift}

AllocatedTemps == {"t" \o NumText(i) : i \in 0..(codeGen.tempCounter - 1)}

\* the parameters and variables the program declares
UserNames(tree) ==
    {n.value : n \in Range(NodesOfType(tree, "Parameter"))
                     \cup Range(NodesOfType(tree, "VariableDeclaration"))}

\* C24: for a program that passed the phases before it, no temporary t<N>
\* that generate allocated has the name of a variable or a parameter of the
\* program, so that no instruction assigning a temporary overwrites a user
\* variable.
C24_TemporariesApartFromUserNames ==
    genReturned # <<>> => AllocatedTemps \cap UserNames(parseResult.ast) = {}

\* C25: a function is visible from its own declaration on: a call inside
\* the function itself and a call of a function declared earlier resolve,
\* without a diagnostic, and a call of a function declared later in the
\* source is reported as "Undefined function: <name>", once.
C25_VisibleFromDeclaration ==
    semResult # null =>
        \A name \in CalleeNames :
            /\ lexer.source = CallBefore(name) =>
                   Messages(semResult.errors) = <<"Undefined function: " \o name.value>>
            /\ lexer.source \in {CallAfter(name), CallWithin(name)} =>
                   semResult.errors = <<>>

=============================================================================
